---- MODULE Spec2Model ----
(***************************************************************************)
(* Model of the ceph kernel client's directory operations                  *)
(* (src/kernel/dir.c): the dentry tree with its leases, path construction, *)
(* lookup and the mutating operations, and the fragmented readdir; and of   *)
(* the monitor command client (src/ceph.cc): do_command, its resend timer  *)
(* and handle_ack.                                                         *)
(***************************************************************************)
EXTENDS Integers, Sequences, FiniteSets, TLC

(***************************************************************************)
(* Bounds of the model.                                                    *)
(***************************************************************************)
\* number of dentries of the name tree in the path-construction specs
NDentry == 3
\* directory versions range over 0..MaxVersion
MaxVersion == 1
\* d_move's by other threads in one behaviour of the racing specification
MaxRenames == 2
MaxStorm == 1
\* handler calls in one behaviour of the operations specification
MaxCalls == 1
\* threads that call ceph_unlink at the same time
NThreads == 2
\* monitors in the MonMap
NMon == 2
\* commands given to do_command in one behaviour (do_cli reads them in a loop)
MaxCmds == 2
\* the depth of a directory's fragment tree is at most MaxBits
MaxBits == 1
\* a fragment lists at most MaxEntries names
MaxEntries == 2
\* the width of an unsigned int, in bits; a loff_t is twice as wide
WordBits == 4

NULL == 0
\* include/linux/limits.h
NAME_MAX == 255
Dentries == 1 .. NDentry
Inodes == 1 .. NDentry
Versions == 0 .. MaxVersion

\* the characters of names and paths; NUL is the C string terminator and
\* UNINIT a byte of a kmalloc'ed buffer nobody wrote yet
NUL == "NUL"
UNINIT == "?"
SLASH == "/"
\* the names dentries carry (of different lengths)
NameA == <<"a">>
NameBC == <<"b", "c">>
RootName == <<"/">>
Names == {NameA, NameBC}

\* errno values returned by the code
EINVAL == "EINVAL"
ENOMEM == "ENOMEM"
ENOENT == "ENOENT"
ESTALE == "ESTALE"
OK == "OK"
\* the walk would be restarted for ever (the retry branch taken with nothing changing)
RETRY == "RETRY"
UNSET == "unset"
EACCES == "EACCES"
ENAMETOOLONG == "ENAMETOOLONG"
\* the kernel stops the thread: a NULL pointer was dereferenced
OOPS == "OOPS"

VARIABLES
    \* struct dentry fields
    d_name,     \* dentry -> name (a sequence of characters)
    d_parent,   \* dentry -> parent dentry (the root is its own parent)
    d_inode,    \* dentry -> inode, or NULL for a negative dentry
    d_time,     \* dentry -> version of the parent directory it was filled under
    d_lease,    \* dentry -> ceph_dentry_lease_valid(dentry)
    d_hashed,   \* dentry -> is in the dcache hash (d_drop clears it)
    \* struct ceph_inode_info fields
    i_version,  \* inode -> directory version
    i_content,  \* inode -> ceph_inode_lease_valid(inode, CEPH_LOCK_ICONTENT)
    \* the last call made into the module: its arguments, inputs and results
    call,
    \* a thread inside ceph_build_dentry_path: its position and locals
    bp,
    n_renames,  \* d_move's done so far by other threads
    \* the operations
    i_nlink,    \* inode -> link count
    d_used,     \* dentry -> is allocated
    n_calls,    \* handlers called so far
    \* an open directory: struct file and struct ceph_file_info
    f_pos,        \* filp->f_pos
    fi_frag,      \* fi->frag
    last_readdir, \* fi->last_readdir: <<>> for NULL, or <<the reply>>
    \* the directory on the MDS
    dir_bits,     \* its fragments are the 2^dir_bits leaves of this depth
    dir_nr,       \* fragment -> number of names in it
    \* threads of the VFS inside ceph_unlink
    th,           \* thread -> its position in ceph_unlink and its locals
    trace,        \* the lease releases and request dispatches, in order
    \* the monitor command client (src/ceph.cc)
    reply,        \* bool reply
    reply_rc,     \* int reply_rc
    resend_event, \* Context *resend_event: NULL or the scheduled event
    last_mon,     \* the monitor MonMap::pick_mon() currently answers
    pending_cmd,  \* vector<string> pending_cmd: the command being sent
    timer,        \* SafeTimer timer: the events scheduled and not cancelled
    msgs,         \* MMonCommand messages on their way to a monitor
    acks,         \* MMonCommandAck messages on their way to the client
    pc,           \* the thread calling do_command: where it is
    last_ack      \* the acknowledgement handle_ack handled last

treeVars == <<d_name, d_parent, d_inode, d_time, d_lease, d_hashed,
              i_version, i_content>>
raceVars == <<bp, n_renames>>
vars == <<d_name, d_parent, d_inode, d_time, d_lease, d_hashed,
          i_version, i_content, call, bp, n_renames, i_nlink, d_used, n_calls,
          f_pos, fi_frag, last_readdir, dir_bits, dir_nr,
          th, trace,
          reply, reply_rc, resend_event, last_mon, pending_cmd, timer, msgs,
          acks, pc, last_ack>>
opsVars == <<i_nlink, d_used, n_calls>>
dirVars == <<f_pos, fi_frag, last_readdir, dir_bits, dir_nr>>
thrVars == <<th, trace>>
cmdVars == <<reply, reply_rc, resend_event, last_mon, pending_cmd, timer, msgs,
             acks, pc, last_ack>>
\* what the actions of each specification leave alone
OutsidePath == <<raceVars, opsVars, dirVars, thrVars, cmdVars>>
OutsideRace == <<opsVars, dirVars, thrVars, cmdVars>>
OutsideOps == <<raceVars, dirVars, thrVars, cmdVars>>
OutsideDir == <<treeVars, raceVars, i_nlink, d_used, thrVars, cmdVars>>

(***************************************************************************)
(* The operators below take the tree as a record t, so that a handler can  *)
(* apply them to the tree as its earlier steps left it.  T is the tree of  *)
(* the current state.                                                      *)
(***************************************************************************)
T ==
    [name |-> d_name, parent |-> d_parent, inode |-> d_inode, time |-> d_time,
     lease |-> d_lease, hashed |-> d_hashed, version |-> i_version,
     content |-> i_content]

\* include/linux/dcache.h: IS_ROOT(x) is (x == x->d_parent)
IS_ROOT(t, d) == t.parent[d] = d

\* ceph_ino(inode): the inode number; a NULL inode has none to read
BADINO == "null-deref"
ceph_ino(ino) == IF ino = NULL THEN BADINO ELSE ino

\* d_drop(dentry): unhash
d_drop(t, d) == [t EXCEPT !.hashed[d] = FALSE]

(***************************************************************************)
(* ceph_dentry_revalidate: the dentry is valid when the parent directory's *)
(* version is the one the dentry was filled under and we hold the ICONTENT *)
(* lease on the directory, or when the dentry's own lease is valid.        *)
(* Otherwise the dentry is d_drop'ed and 0 returned.                       *)
(***************************************************************************)
RevalidateNoContentCheck(t, d) ==
    LET dir == t.inode[t.parent[d]] IN
    \/ t.version[dir] = t.time[d]
    \/ t.lease[d]

\* the version test passing for every dentry filled under the directory's
\* version or an older one
RevalidateVersionAtMost(t, d) ==
    LET dir == t.inode[t.parent[d]] IN
    \/ t.version[dir] >= t.time[d] /\ t.content[dir]
    \/ t.lease[d]

ceph_dentry_revalidate(t, d) ==
    LET dir == t.inode[t.parent[d]] IN
    \/ t.version[dir] = t.time[d] /\ t.content[dir]
    \/ t.lease[d]

(***************************************************************************)
(* ceph_build_dentry_path, run with nothing else touching the tree.        *)
(* The path buffer is a sequence; C index i is element i + 1.              *)
(***************************************************************************)
\* strncpy(path + pos, src, n): n bytes, NUL padded when src is shorter; a
\* byte that falls outside the buffer is not stored in it
strncpy(path, pos, src, n) ==
    [i \in 1 .. Len(path) |->
        IF i - 1 >= pos /\ i - 1 < pos + n
        THEN (IF i - pos <= Len(src) THEN src[i - pos] ELSE NUL)
        ELSE path[i]]

\* first pass (lines 40-51): the length of the path, and the dentries that
\* ceph_dentry_revalidate d_drop'ed on the way
RECURSIVE Pass1NoInodeTest(_, _, _, _)
Pass1NoInodeTest(t, temp, len, dropped) ==
    IF IS_ROOT(t, temp) THEN [err |-> OK, len |-> len, dropped |-> dropped]
    ELSE IF t.parent[temp] = NULL
    THEN [err |-> OOPS, len |-> len, dropped |-> dropped]
    ELSE IF ~ceph_dentry_revalidate(t, temp)
    THEN [err |-> OK, len |-> len, dropped |-> dropped \cup {temp}]
    ELSE IF t.parent[temp] = NULL
    THEN [err |-> EINVAL, len |-> len, dropped |-> dropped]
    ELSE Pass1NoInodeTest(t, t.parent[temp], len + 1 + Len(t.name[temp]), dropped)

\* ceph_dentry_revalidate reads dentry->d_parent->d_inode (line 636): with
\* no parent that is a NULL pointer dereference
RECURSIVE Pass1(_, _, _, _)
Pass1(t, temp, len, dropped) ==
    IF IS_ROOT(t, temp) THEN [err |-> OK, len |-> len, dropped |-> dropped]
    ELSE IF t.inode[temp] # NULL /\ t.parent[temp] = NULL
    THEN [err |-> OOPS, len |-> len, dropped |-> dropped]
    ELSE IF t.inode[temp] # NULL /\ ~ceph_dentry_revalidate(t, temp)
    THEN [err |-> OK, len |-> len, dropped |-> dropped \cup {temp}]
    ELSE IF t.parent[temp] = NULL
    THEN [err |-> EINVAL, len |-> len, dropped |-> dropped]
    ELSE Pass1(t, t.parent[temp], len + 1 + Len(t.name[temp]), dropped)

\* second pass (lines 60-78): the names written from the end of the buffer
RECURSIVE Pass2(_, _, _, _)
Pass2(t, temp, pos, path) ==
    IF IS_ROOT(t, temp) \/ pos = 0
    THEN [err |-> OK, temp |-> temp, pos |-> pos, path |-> path]
    ELSE LET p == pos - Len(t.name[temp]) IN
         IF p < 0
         THEN [err |-> OK, temp |-> temp, pos |-> p, path |-> path]
         ELSE LET w  == strncpy(path, p, t.name[temp], Len(t.name[temp]))
                  p2 == IF p # 0 THEN p - 1 ELSE p
                  w2 == IF p # 0 THEN [w EXCEPT ![p2 + 1] = SLASH] ELSE w
              IN  IF t.parent[temp] = NULL
                  THEN [err |-> EINVAL, temp |-> NULL, pos |-> p2, path |-> w2]
                  ELSE Pass2(t, t.parent[temp], p2, w2)

BuildPathFail(e, dropped) ==
    [err |-> e, path |-> <<>>, plen |-> UNSET, base |-> UNSET, dropped |-> dropped]

ceph_build_dentry_path(t, dentry, alloc_ok) ==
    IF dentry = NULL THEN BuildPathFail(EINVAL, {})
    ELSE LET p1 == Pass1(t, dentry, 0, {}) IN
    IF p1.err # OK THEN BuildPathFail(p1.err, p1.dropped)
    ELSE LET len   == IF p1.len # 0 THEN p1.len - 1 ELSE 0
             path0 == [i \in 1 .. len + 1 |-> IF i = len + 1 THEN NUL ELSE UNINIT]
             p2    == Pass2(t, dentry, len, path0)
         IN  IF ~alloc_ok THEN BuildPathFail(ENOMEM, p1.dropped)
             ELSE IF p2.err # OK THEN BuildPathFail(EINVAL, p1.dropped)
             ELSE IF p2.pos # 0 THEN BuildPathFail(RETRY, p1.dropped)
             ELSE [err |-> OK, path |-> p2.path, plen |-> len,
                   base |-> ceph_ino(t.inode[p2.temp]), dropped |-> p1.dropped]

(***************************************************************************)
(* The path-construction specification: a chain of dentries under the      *)
(* root, with every combination of versions and leases, on which           *)
(* ceph_build_dentry_path and ceph_dentry_revalidate are called.           *)
(***************************************************************************)
NoCall == [op |-> "none"]

InitTree ==
    /\ d_parent = [d \in Dentries |-> IF d = 1 THEN 1 ELSE d - 1]
    /\ \E n \in [Dentries \ {1} -> Names] :
          d_name = [d \in Dentries |-> IF d = 1 THEN RootName ELSE n[d]]
    /\ \E neg \in BOOLEAN :
          d_inode = [d \in Dentries |-> IF d = NDentry /\ neg THEN NULL ELSE d]
    \* a dentry was filled under the directory's current version or an old one
    /\ \E t \in [Dentries \ {1} -> {0, MaxVersion}] :
          d_time = [d \in Dentries |-> IF d = 1 THEN 0 ELSE t[d]]
    /\ \E l \in [Dentries \ {1} -> BOOLEAN] :
          d_lease = [d \in Dentries |-> d # 1 /\ l[d]]
    /\ d_hashed = [d \in Dentries |-> TRUE]
    /\ i_version = [i \in Inodes |-> MaxVersion]
    /\ \E c \in [Inodes \ {NDentry} -> BOOLEAN] :
          i_content = [i \in Inodes |-> i # NDentry /\ c[i]]

\* no thread is inside ceph_unlink
ThreadsIdle ==
    /\ th = <<>>
    /\ trace = <<>>

\* the globals of ceph.cc as the program starts: no command was issued
CmdIdle ==
    /\ reply = FALSE
    /\ reply_rc = 0
    /\ resend_event = NULL
    /\ last_mon = NULL
    /\ pending_cmd = NULL
    /\ timer = {}
    /\ msgs = {}
    /\ acks = {}
    /\ pc = "idle"
    /\ last_ack = <<>>

BpIdle ==
    [pc |-> "idle", dentry |-> NULL, temp |-> NULL, len |-> 0, pos |-> 0,
     path |-> <<>>, nlen |-> 0, oob |-> FALSE, r0 |-> 0, retried |-> FALSE]

\* the variables of the open directory, where no directory is read: an
\* empty directory of one fragment
DirIdle ==
    /\ f_pos = 0
    /\ fi_frag = 0
    /\ last_readdir = <<>>
    /\ dir_bits = 0
    /\ dir_nr = [f \in {0} |-> 0]

\* the variables of the operations, where no operation runs; no thread is
\* inside ceph_unlink and no monitor command is under way
OpsIdle ==
    /\ i_nlink = [i \in Inodes |-> 1]
    /\ d_used = [d \in Dentries |-> TRUE]
    /\ n_calls = 0
    /\ ThreadsIdle
    /\ CmdIdle

InitPath ==
    /\ InitTree
    /\ call = NoCall
    /\ bp = BpIdle
    /\ n_renames = 0
    /\ OpsIdle
    /\ DirIdle

\* a caller builds the path of dentry d; kmalloc may fail
BuildPathCall(d, alloc_ok) ==
    LET r == ceph_build_dentry_path(T, d, alloc_ok) IN
    /\ call' = [op |-> "build_path", dentry |-> d, alloc_ok |-> alloc_ok, err |-> r.err,
                  path |-> r.path, plen |-> r.plen, base |-> r.base,
                  oob |-> FALSE]
    /\ d_hashed' = [x \in Dentries |-> d_hashed[x] /\ x \notin r.dropped]
    /\ UNCHANGED <<d_name, d_parent, d_inode, d_time, d_lease,
                   i_version, i_content, OutsidePath>>

\* the VFS revalidates dentry d (never the root) during a path traversal
Revalidate(d) ==
    LET dir == d_inode[d_parent[d]]
        ret == ceph_dentry_revalidate(T, d) IN
    /\ ~IS_ROOT(T, d)
    /\ call' = [op |-> "revalidate", dentry |-> d, vmatch |-> (i_version[dir] = d_time[d]),
                  content |-> i_content[dir], lease |-> d_lease[d], ret |-> ret,
                  time |-> d_time[d], version |-> i_version[dir]]
    /\ d_hashed' = [d_hashed EXCEPT ![d] = d_hashed[d] /\ ret]
    /\ UNCHANGED <<d_name, d_parent, d_inode, d_time, d_lease,
                   i_version, i_content, OutsidePath>>

NextPath ==
    \/ \E d \in Dentries, alloc_ok \in BOOLEAN : BuildPathCall(d, alloc_ok)
    \/ \E d \in Dentries : Revalidate(d)

SpecPath == InitPath /\ [][NextPath]_vars

(***************************************************************************)
(* Path construction and revalidation: properties.                         *)
(***************************************************************************)
\* where the walk stops: as the claim words it (claimed = TRUE: the first node
\* that is the root or fails revalidation) and as amended (a node without an
\* inode is walked without being revalidated)
StopsWalk(d, claimed) ==
    \/ IS_ROOT(T, d)
    \/ (claimed \/ d_inode[d] # NULL) /\ ~ceph_dentry_revalidate(T, d)

\* the nodes walked before the stopping node, in root-to-leaf order
RECURSIVE Walked(_, _)
Walked(d, claimed) ==
    IF StopsWalk(d, claimed) THEN <<>>
    ELSE Walked(d_parent[d], claimed) \o <<d>>

RECURSIVE StopNode(_, _)
StopNode(d, claimed) ==
    IF StopsWalk(d, claimed) THEN d ELSE StopNode(d_parent[d], claimed)

\* the names of a sequence of dentries joined by single '/' separators
RECURSIVE JoinNames(_)
JoinNames(ds) ==
    IF ds = <<>> THEN <<>>
    ELSE IF Len(ds) = 1 THEN d_name[ds[1]]
    ELSE d_name[ds[1]] \o <<SLASH>> \o JoinNames(Tail(ds))

PathIsWalk(claimed) ==
    (call.op = "build_path" /\ call.alloc_ok) =>
        LET want == JoinNames(Walked(call.dentry, claimed)) IN
        /\ call.err = OK
        /\ call.path = want \o <<NUL>>
        /\ call.plen = Len(want)
        /\ call.base = ceph_ino(d_inode[StopNode(call.dentry, claimed)])

\* C1 (as claimed): with no concurrent mutation the walk stops at the first
\* node that is the root or fails ceph_dentry_revalidate; the path is the
\* walked names joined by '/', plen its length, base the stopping node's inode.
C1_PathStopsAtFirstUntrusted == PathIsWalk(TRUE)

\* C1 (amended): the walk stops at the first node that is the root or that
\* has an inode and fails ceph_dentry_revalidate (a node without an inode is
\* walked without being revalidated); the path is the walked names joined by
\* '/' in root-to-leaf order, plen its length, base the stopping node's inode.
C1_PathStopsAtFirstUntrustedPositive == PathIsWalk(FALSE)

\* C1 witness: a negative, untrusted target under a trusted parent gave a
\* two-component path relative to the root
C1_Witness ==
    /\ call.op = "build_path" /\ call.err = OK
    /\ d_inode[call.dentry] = NULL
    /\ ~ceph_dentry_revalidate(T, call.dentry)
    /\ Len(Walked(call.dentry, FALSE)) = 2
    /\ call.base = ceph_ino(d_inode[1])

\* C3 (as claimed): revalidation succeeds iff the recorded parent version
\* equals the directory's version or the dentry lease is valid.
C3_TrustIffVersionOrLease ==
    call.op = "revalidate" => (call.ret <=> (call.vmatch \/ call.lease))

\* C3 (amended): revalidation succeeds iff (the recorded parent version equals
\* the directory's version and the ICONTENT lease on the directory is valid)
\* or the dentry's own lease is valid.
C3_TrustIffVersionAndContentOrLease ==
    call.op = "revalidate" =>
        (call.ret <=> ((call.vmatch /\ call.content) \/ call.lease))

\* C3 witness: a version match with neither lease was revalidated
C3_Witness ==
    /\ call.op = "revalidate"
    /\ call.vmatch /\ ~call.content /\ ~call.lease
    /\ ~d_hashed[call.dentry]

(***************************************************************************)
(* ceph_build_dentry_path racing with other threads.  The function takes   *)
(* no lock, so d_move (rename) and lease expiry can happen between any two *)
(* of its reads of the dentries: bp.pc is the thread's position.           *)
(***************************************************************************)
InitRace ==
    /\ d_parent = [d \in Dentries |-> IF d = 1 THEN 1 ELSE d - 1]
    /\ d_name = [d \in Dentries |->
                    IF d = 1 THEN RootName
                    ELSE IF d % 2 = 0 THEN NameA ELSE NameBC]
    /\ d_inode = [d \in Dentries |-> d]
    /\ d_time = [d \in Dentries |-> 0]
    /\ d_lease = [d \in Dentries |-> d # 1]
    /\ d_hashed = [d \in Dentries |-> TRUE]
    /\ i_version = [i \in Inodes |-> MaxVersion]
    /\ i_content = [i \in Inodes |-> FALSE]
    /\ call = NoCall
    /\ bp = BpIdle
    /\ n_renames = 0
    /\ OpsIdle
    /\ DirIdle

\* line 36-40: entry, with temp at the target
BP_Start(d) ==
    /\ bp.pc = "idle"
    /\ bp' = [BpIdle EXCEPT !.pc = "pass1", !.dentry = d, !.temp = d,
                            !.r0 = n_renames]
    /\ call' = NoCall
    /\ UNCHANGED <<treeVars, n_renames, OutsideRace>>

\* lines 41-51: one iteration of the first loop
BP_Pass1 ==
    /\ bp.pc = "pass1"
    /\ LET t == bp.temp IN
       IF IS_ROOT(T, t)
       THEN /\ bp' = [bp EXCEPT !.pc = "alloc"]
            /\ UNCHANGED <<d_hashed, call>>
       ELSE IF d_inode[t] # NULL /\ ~ceph_dentry_revalidate(T, t)
       THEN /\ bp' = [bp EXCEPT !.pc = "alloc"]
            /\ d_hashed' = [d_hashed EXCEPT ![t] = FALSE]
            /\ UNCHANGED call
       ELSE IF d_parent[t] = NULL
       THEN /\ bp' = BpIdle
            /\ call' = [op |-> "build_path", dentry |-> bp.dentry, alloc_ok |-> TRUE,
                        err |-> EINVAL, path |-> <<>>, plen |-> UNSET, base |-> UNSET]
            /\ UNCHANGED d_hashed
       ELSE /\ bp' = [bp EXCEPT !.len = bp.len + 1 + Len(d_name[t]),
                                !.temp = d_parent[t]]
            /\ UNCHANGED <<d_hashed, call>>
    /\ UNCHANGED <<d_name, d_parent, d_inode, d_time, d_lease,
                   i_version, i_content, n_renames, OutsideRace>>

\* lines 52-60: the buffer is allocated, terminated, and temp is back at the target
BP_Alloc(alloc_ok) ==
    /\ bp.pc = "alloc"
    /\ LET len == IF bp.len # 0 THEN bp.len - 1 ELSE bp.len IN
       IF ~alloc_ok
       THEN /\ bp' = BpIdle
            /\ call' = [op |-> "build_path", dentry |-> bp.dentry, alloc_ok |-> FALSE,
                        err |-> ENOMEM, path |-> <<>>, plen |-> UNSET, base |-> UNSET]
       ELSE /\ bp' = [bp EXCEPT !.pc = "pass2", !.len = len, !.pos = len,
                        !.temp = bp.dentry,
                        !.path = [i \in 1 .. len + 1 |->
                                     IF i = len + 1 THEN NUL ELSE UNINIT]]
            /\ UNCHANGED call
    /\ UNCHANGED <<treeVars, n_renames, OutsideRace>>

\* lines 60-63: the loop test, then pos -= temp->d_name.len and the pos < 0 test
BP_Pass2Test ==
    /\ bp.pc = "pass2"
    /\ LET t == bp.temp IN
       IF IS_ROOT(T, t) \/ bp.pos = 0
       THEN bp' = [bp EXCEPT !.pc = "check"]
       ELSE LET n == Len(d_name[t]) IN
            bp' = [bp EXCEPT !.pos = bp.pos - n, !.nlen = n,
                             !.pc = IF bp.pos - n < 0 THEN "check" ELSE "copy"]
    /\ UNCHANGED <<treeVars, call, n_renames, OutsideRace>>

\* lines 65-77: strncpy of the name as it is now; the length given to strncpy is
\* read again from the dentry (reread) or is the value line 61 loaded; then
\* the separator, and temp moves to the parent
BP_Pass2Copy(reread) ==
    /\ bp.pc = "copy"
    /\ LET t  == bp.temp
           n  == IF reread THEN Len(d_name[t]) ELSE bp.nlen
           w  == strncpy(bp.path, bp.pos, d_name[t], n)
           p2 == IF bp.pos # 0 THEN bp.pos - 1 ELSE bp.pos
           w2 == IF bp.pos # 0 THEN [w EXCEPT ![p2 + 1] = SLASH] ELSE w
       IN
       IF d_parent[t] = NULL
       THEN /\ bp' = BpIdle
            /\ call' = [op |-> "build_path", dentry |-> bp.dentry, alloc_ok |-> TRUE,
                        err |-> EINVAL, path |-> <<>>, plen |-> UNSET, base |-> UNSET]
       ELSE /\ bp' = [bp EXCEPT !.pc = "pass2", !.pos = p2, !.path = w2,
                        !.temp = d_parent[t],
                        !.oob = bp.oob \/ (bp.pos + n > Len(bp.path))]
            /\ UNCHANGED call
    /\ UNCHANGED <<treeVars, n_renames, OutsideRace>>

\* the retry label after `len = 0`: the restarted walk adds to the old len
BP_CheckKeepsLen ==
    /\ bp.pc = "check"
    /\ IF bp.pos # 0
       THEN /\ bp' = [BpIdle EXCEPT !.pc = "pass1", !.dentry = bp.dentry,
                                    !.temp = bp.dentry, !.r0 = n_renames,
                                    !.retried = TRUE, !.len = bp.len + 1]
            /\ UNCHANGED call
       ELSE /\ bp' = BpIdle
            /\ call' = [op |-> "build_path", dentry |-> bp.dentry, alloc_ok |-> TRUE,
                        err |-> OK, path |-> bp.path, plen |-> bp.len,
                        base |-> ceph_ino(d_inode[bp.temp]), oob |-> bp.oob,
                        bound |-> d_inode[bp.temp] # NULL,
                        retried |-> bp.retried]
    /\ UNCHANGED <<treeVars, n_renames, OutsideRace>>

\* lines 79-94: pos != 0 frees the buffer and restarts; else the result.
\* r0 is the number of renames there were when the walk began, retried
\* whether the call took the retry branch
BP_Check ==
    /\ bp.pc = "check"
    /\ IF bp.pos # 0
       THEN /\ bp' = [BpIdle EXCEPT !.pc = "pass1", !.dentry = bp.dentry,
                                    !.temp = bp.dentry, !.r0 = n_renames,
                                    !.retried = TRUE]
            /\ UNCHANGED call
       ELSE /\ bp' = BpIdle
            /\ call' = [op |-> "build_path", dentry |-> bp.dentry, alloc_ok |-> TRUE,
                        err |-> OK, path |-> bp.path, plen |-> bp.len,
                        base |-> ceph_ino(d_inode[bp.temp]), oob |-> bp.oob,
                        bound |-> d_inode[bp.temp] # NULL,
                        retried |-> bp.retried]
    /\ UNCHANGED <<treeVars, n_renames, OutsideRace>>

\* a is d or an ancestor of d
RECURSIVE IsAncestorOrSelf(_, _)
IsAncestorOrSelf(a, d) ==
    \/ a = d
    \/ ~IS_ROOT(T, d) /\ IsAncestorOrSelf(a, d_parent[d])

\* another thread's d_move: dentry d gets name n under directory p.  The
\* caller of ceph_build_dentry_path holds the i_mutex of the target's parent
\* directory, so the target itself is not renamed during the walk: only the
\* dentries above it are.
RenameDentry(d, n, p) ==
    /\ n_renames < MaxRenames
    /\ ~IS_ROOT(T, d)
    /\ bp.pc # "idle" => d # bp.dentry
    /\ d_inode[p] # NULL
    /\ ~IsAncestorOrSelf(d, p)
    /\ <<n, p>> # <<d_name[d], d_parent[d]>>
    /\ d_name' = [d_name EXCEPT ![d] = n]
    /\ d_parent' = [d_parent EXCEPT ![d] = p]
    /\ n_renames' = n_renames + 1
    /\ UNCHANGED <<d_inode, d_time, d_lease, d_hashed, i_version, i_content,
                   call, bp, OutsideRace>>

\* the lease on dentry d runs out
ExpireLease(d) ==
    /\ d_lease[d]
    /\ d_lease' = [d_lease EXCEPT ![d] = FALSE]
    /\ UNCHANGED <<d_name, d_parent, d_inode, d_time, d_hashed, i_version,
                   i_content, call, bp, n_renames, OutsideRace>>

NextRace ==
    \/ \E d \in Dentries : BP_Start(d)
    \/ BP_Pass1
    \/ \E alloc_ok \in BOOLEAN : BP_Alloc(alloc_ok)
    \/ BP_Pass2Test
    \/ \E reread \in BOOLEAN : BP_Pass2Copy(reread)
    \/ BP_Check
    \/ \E d \in Dentries, n \in Names, p \in Dentries : RenameDentry(d, n, p)
    \/ \E d \in Dentries : ExpireLease(d)

SpecRace == InitRace /\ [][NextRace]_vars

(***************************************************************************)
(* Termination of ceph_build_dentry_path: the walk of the leaf of the      *)
(* chain races with at most MaxStorm renames of its ancestors.  The thread *)
(* inside the function keeps running (it takes no lock and kmalloc         *)
(* returns), so each of its steps is weakly fair; the renames are not.     *)
(***************************************************************************)
StormRename(d, n, p) ==
    /\ n_renames < MaxStorm
    /\ RenameDentry(d, n, p)

NextStorm ==
    \/ BP_Start(NDentry)
    \/ BP_Pass1
    \/ \E alloc_ok \in BOOLEAN : BP_Alloc(alloc_ok)
    \/ BP_Pass2Test
    \/ \E reread \in BOOLEAN : BP_Pass2Copy(reread)
    \/ BP_Check
    \/ \E d \in Dentries, n \in Names, p \in Dentries : StormRename(d, n, p)
    \/ \E d \in Dentries : ExpireLease(d)

SpecStorm ==
    /\ InitRace
    /\ [][NextStorm]_vars
    /\ WF_vars(BP_Pass1)
    /\ WF_vars(\E alloc_ok \in BOOLEAN : BP_Alloc(alloc_ok))
    /\ WF_vars(BP_Pass2Test)
    /\ WF_vars(\E reread \in BOOLEAN : BP_Pass2Copy(reread))
    /\ WF_vars(BP_Check)

\* C25: the retry branch is taken only when a rename happened since the
\* walk began, so without concurrent renames the function returns after one
\* walk; and with finitely many renames a call always returns.
C25_ReturnsOnceRenamesStop ==
    /\ [](bp.pc = "check" /\ bp.pos # 0 => n_renames > bp.r0)
    /\ (bp.pc # "idle" ~> bp.pc = "idle")

\* C25 witness: a walk that was restarted after a rename has returned a path
C25_Witness ==
    /\ call.op = "build_path"
    /\ call.err = OK
    /\ call.retried

\* the bytes of a buffer before its first NUL or unwritten byte
RECURSIVE ContentLen(_)
ContentLen(path) ==
    IF path = <<>> \/ Head(path) \in {NUL, UNINIT} THEN 0
    ELSE 1 + ContentLen(Tail(path))

\* C2: under any interleaving of renames and invalidations with the two
\* passes, a returned path has a declared length equal to its content: all
\* plen bytes were written by the second pass, inside the buffer, and the
\* terminator follows them.
C2_ReturnedLengthIsContent ==
    (call.op = "build_path" /\ call.err = OK) =>
        /\ ContentLen(call.path) = call.plen
        /\ Len(call.path) = call.plen + 1
        /\ \A i \in 1 .. call.plen : call.path[i] \notin {NUL, UNINIT}
        /\ ~call.oob

\* C22: under any interleaving of renames with the two passes, a returned
\* path is a well-formed relative path: it does not begin with the
\* separator, has no empty component (no separator first, last or next to
\* another one), and the base was read from a dentry bound to an inode.
C22_ReturnedPathWellFormed ==
    (call.op = "build_path" /\ call.err = OK) =>
        /\ call.plen > 0 => call.path[1] # SLASH
        /\ call.plen > 0 => call.path[call.plen] # SLASH
        /\ \A i \in 1 .. call.plen - 1 :
              ~(call.path[i] = SLASH /\ call.path[i + 1] = SLASH)
        /\ call.bound

(***************************************************************************)
(* The operations: lookup and the mutating operations.  A handler is an    *)
(* operator from the tree (a record t, which also carries the link counts, *)
(* the allocated dentries and the log of the calls the handler made) and   *)
(* the inputs the environment chooses (allocation results, the reply of    *)
(* the MDS) to the tree it leaves and its return value.                    *)
(***************************************************************************)
\* The tree of the operations specification: the root (1), directory "a"
\* (2) and file "bc" (3) under it, the negative dentry "a" (4) inside the
\* directory, and one unallocated dentry per call for d_alloc.
OpsDentries == 1 .. (4 + MaxCalls)
OpsInodes == 1 .. (4 + MaxCalls)
DirInodes == {1, 2}

\* enum of the replica policies given to ceph_mdsc_create_request
USE_AUTH_MDS == "USE_AUTH_MDS"
USE_ANY_MDS == "USE_ANY_MDS"
USE_CAP_MDS == "USE_CAP_MDS"
\* the operations of the MDS protocol used here
OP_LSTAT == "LSTAT"
OP_MKNOD == "MKNOD"
OP_SYMLINK == "SYMLINK"
OP_MKDIR == "MKDIR"
OP_LINK == "LINK"
OP_UNLINK == "UNLINK"
OP_RMDIR == "RMDIR"
OP_RENAME == "RENAME"
OP_READDIR == "READDIR"
\* lease masks
ICONTENT == "ICONTENT"
ILINK == "ILINK"
DN == "DN"

\* the replies of the MDS: the result, the length of the trace, and for a
\* lookup whose trace is applied whether the dentry got spliced
Replies ==
    {r \in [err : {OK, ENOENT, EACCES}, numd : {0, 1}, splice : BOOLEAN] :
        r.splice => (r.err = OK /\ r.numd = 1)}

\* the tree the handlers work on
OT ==
    [name |-> d_name, parent |-> d_parent, inode |-> d_inode, time |-> d_time,
     lease |-> d_lease, hashed |-> d_hashed, version |-> i_version,
     content |-> i_content, nlink |-> i_nlink, used |-> d_used,
     cinode |-> d_inode, cnlink |-> i_nlink, log |-> <<>>]

\* the value of S's only element: Only({e(x) : x \in {v}}) is e(v) with v
\* evaluated once
Only(S) == CHOOSE r \in S : TRUE

Log(t, ev) == [t EXCEPT !.log = Append(@, ev)]

\* a handler's call of ceph_build_dentry_path
BuildPathIn(t0, dentry, alloc_ok) ==
    Only({ Only({ [t |-> Log([t EXCEPT !.hashed =
                                [x \in DOMAIN t.hashed |->
                                    t.hashed[x] /\ x \notin r.dropped]],
                             [ev |-> "build_path", dentry |-> dentry]),
                   err |-> r.err]
                  : r \in {ceph_build_dentry_path(t, dentry, alloc_ok)} })
           : t \in {t0} })

\* ceph_mdsc_create_request(mdsc, op, ..., mode)
ceph_mdsc_create_request(t, op, mode) ==
    Log(t, [ev |-> "create_request", op |-> op, mode |-> mode])

\* ceph_mdsc_lease_release(mdsc, inode, dentry, mask): the leases named by
\* mask are given up locally
ceph_mdsc_lease_release(t0, ino, dentry, mask) ==
    Only({ Log([t EXCEPT
                   !.content = [i \in DOMAIN t.content |->
                                   t.content[i] /\ ~(i = ino /\ ICONTENT \in mask)],
                   !.lease = [d \in DOMAIN t.lease |->
                                   t.lease[d] /\ ~(d = dentry /\ DN \in mask)]],
               [ev |-> "lease_release", ino |-> ino, mask |-> mask])
           : t \in {t0} })

ceph_mdsc_put_request(t) == Log(t, [ev |-> "put_request"])

\* a read of req->r_reply_info
ReadReply(t) == Log(t, [ev |-> "read_reply"])

\* d_alloc(parent, name): a new negative, unhashed dentry
FreeDentry(t) ==
    CHOOSE n \in DOMAIN t.used :
        ~t.used[n] /\ \A m \in DOMAIN t.used : ~t.used[m] => n <= m

d_alloc(t, n0, parent, name) ==
    Only({ [t EXCEPT !.used[n] = TRUE, !.name[n] = name, !.parent[n] = parent,
                     !.inode[n] = NULL, !.cinode[n] = NULL, !.hashed[n] = FALSE,
                     !.lease[n] = FALSE, !.time[n] = 0]
           : n \in {n0} })

d_rehash(t, d) == [t EXCEPT !.hashed[d] = TRUE]

\* d_add(dentry, inode): d_instantiate and d_rehash
d_instantiate(t, d, ino) == [t EXCEPT !.inode[d] = ino]
d_add(t, d, ino) == d_rehash(d_instantiate(t, d, ino), d)

inc_nlink(t, ino) == [t EXCEPT !.nlink[ino] = @ + 1]
drop_nlink(t, ino) == [t EXCEPT !.nlink[ino] = IF @ > 0 THEN @ - 1 ELSE 0]

\* d_move(dentry, target): dentry takes the name and parent of target, which
\* gets those of dentry and is unhashed
d_move(t0, dentry, target) ==
    Only({ [t EXCEPT !.name[dentry] = t.name[target],
                     !.name[target] = t.name[dentry],
                     !.parent[dentry] = t.parent[target],
                     !.parent[target] = t.parent[dentry],
                     !.hashed[dentry] = TRUE, !.hashed[target] = FALSE]
           : t \in {t0} })

(***************************************************************************)
(* ceph_mdsc_do_request and the application of the reply's trace to the    *)
(* tree (mds_client.c, inode.c): on success every tuple of the trace is    *)
(* applied to its dentry, updating the bound inode, the lease and the      *)
(* recorded directory version.  cinode and cnlink follow what the traces   *)
(* confirmed, and only that.                                               *)
(***************************************************************************)
FreshInode(t) ==
    CHOOSE i \in DOMAIN t.nlink :
        /\ \A d \in DOMAIN t.inode : t.inode[d] # i
        /\ \A j \in DOMAIN t.nlink : (\A d \in DOMAIN t.inode : t.inode[d] # j) => i <= j

\* the dentry is bound to ino, with a lease, under the directory's version
TraceBind(t0, d, ino0) ==
    Only({ [t EXCEPT !.inode[d] = ino, !.cinode[d] = ino, !.lease[d] = TRUE,
                     !.hashed[d] = TRUE,
                     !.time[d] = t.version[t.inode[t.parent[d]]]]
           : t \in {t0}, ino \in {ino0} })

TraceNlink(t, ino, n) == [t EXCEPT !.nlink[ino] = n, !.cnlink[ino] = n]

fill_trace(t, op, dentry, old, rpl) ==
    IF op \in {OP_MKNOD, OP_SYMLINK, OP_MKDIR}
    THEN LET ino == FreshInode(t) IN
         [t |-> TraceNlink(TraceBind(t, dentry, ino), ino, 1), last |-> dentry]
    ELSE IF op = OP_LINK
    THEN LET ino == t.inode[old] IN
         [t |-> TraceNlink(TraceBind(t, dentry, ino), ino, t.nlink[ino] + 1),
          last |-> dentry]
    ELSE IF op \in {OP_UNLINK, OP_RMDIR}
    THEN LET ino == t.inode[dentry] IN
         [t |-> TraceNlink([t EXCEPT !.inode[dentry] = NULL,
                                     !.cinode[dentry] = NULL,
                                     !.lease[dentry] = TRUE],
                           ino, IF t.nlink[ino] > 0 THEN t.nlink[ino] - 1 ELSE 0),
          last |-> dentry]
    ELSE IF op = OP_RENAME
    THEN [t |-> d_move(t, old, dentry), last |-> dentry]
    ELSE \* OP_LSTAT
         LET ino == IF t.inode[dentry] # NULL THEN t.inode[dentry] ELSE FreshInode(t)
             n   == FreeDentry(t)
         IN  IF rpl.splice
             THEN [t |-> TraceBind(d_alloc(d_drop(t, dentry), n, t.parent[dentry],
                                           t.name[dentry]), n, ino),
                   last |-> n]
             ELSE [t |-> TraceBind(t, dentry, ino), last |-> dentry]

\* ceph_mdsc_do_request(mdsc, req): the result is reply.err; last is
\* req->r_last_dentry afterwards
ceph_mdsc_do_request(t, op, dentry, old, rpl) ==
    Only({ IF rpl.err = OK /\ rpl.numd > 0
           THEN fill_trace(t1, op, dentry, old, rpl)
           ELSE [t |-> t1, last |-> dentry]
           : t1 \in {Log(t, [ev |-> "do_request", op |-> op])} })

(***************************************************************************)
(* ceph_finish_lookup and ceph_do_lookup                                   *)
(***************************************************************************)
\* a returned dentry pointer: ERR_PTR(e), a dentry, or NULL
ERR_PTR(e) == [err |-> e, d |-> NULL]
Ptr(d) == [err |-> OK, d |-> d]
IS_ERR(x) == x.err # OK

FinishLookupKeepsEnoent(t, last, dentry, rpl) ==
    IF rpl.err # OK THEN [t |-> t, ret |-> ERR_PTR(rpl.err)]
    ELSE IF dentry # last THEN [t |-> t, ret |-> Ptr(last)]
    ELSE [t |-> t, ret |-> Ptr(NULL)]

ceph_finish_lookup(t, last, dentry, rpl) ==
    LET noent  == rpl.err = ENOENT
        notrace == noent /\ rpl.numd = 0
        n      == FreeDentry(t)
        t1     == IF notrace /\ t.inode[dentry] # NULL
                  THEN d_rehash(d_alloc(d_drop(t, dentry), n, t.parent[dentry],
                                        t.name[dentry]), n)
                  ELSE IF notrace THEN d_add(t, dentry, NULL)
                  ELSE t
        last1  == IF notrace /\ t.inode[dentry] # NULL THEN n ELSE last
        err    == IF noent THEN OK ELSE rpl.err
    IN  IF err # OK THEN [t |-> t1, ret |-> ERR_PTR(err)]
        ELSE IF dentry # last1 THEN [t |-> t1, ret |-> Ptr(last1)]
        ELSE [t |-> t1, ret |-> Ptr(NULL)]

\* the policy of the lookup's request (lines 298-312)
LookupModeAlwaysAny(on_inode) == USE_ANY_MDS

LookupMode(on_inode) == IF on_inode THEN USE_CAP_MDS ELSE USE_ANY_MDS

\* in: alloc_ok (kmalloc of the path), req_ok (the request could be
\* created), reply
ceph_do_lookup(t, dentry, on_inode, in) ==
    IF Len(t.name[dentry]) > NAME_MAX
    THEN [t |-> t, ret |-> ERR_PTR(ENAMETOOLONG)]
    ELSE LET p  == IF on_inode THEN [t |-> t, err |-> OK]
                   ELSE BuildPathIn(t, dentry, in.alloc_ok)
             t1 == ceph_mdsc_create_request(p.t, OP_LSTAT, LookupMode(on_inode))
             rq == ceph_mdsc_do_request(t1, OP_LSTAT, dentry, NULL, in.reply)
             f  == ceph_finish_lookup(IF in.reply.err = ENOENT
                                      THEN ReadReply(rq.t) ELSE rq.t,
                                      rq.last, dentry, in.reply)
         IN  IF p.err # OK THEN [t |-> p.t, ret |-> ERR_PTR(p.err)]
             ELSE IF ~in.req_ok THEN [t |-> t1, ret |-> ERR_PTR(ENOMEM)]
             ELSE [t |-> ceph_mdsc_put_request(f.t), ret |-> f.ret]

(***************************************************************************)
(* The mutating operations                                                 *)
(***************************************************************************)
RECURSIVE ReleaseAll(_, _)
ReleaseAll(t, rels) ==
    IF rels = <<>> THEN t
    ELSE ReleaseAll(ceph_mdsc_lease_release(t, Head(rels).ino, Head(rels).dentry,
                                            Head(rels).mask),
                    Tail(rels))

\* the request is dispatched, and the leases are given up afterwards
RequestThenRelease(t, rels, op, dentry, old, rpl) ==
    LET rq == ceph_mdsc_do_request(t, op, dentry, old, rpl) IN
    [t |-> ReleaseAll(rq.t, rels), last |-> rq.last]

\* the calls of ceph_mdsc_lease_release of an operation, followed by its
\* ceph_mdsc_do_request (lines 372-376, 439-440, 473-476, 521-522, 562-565,
\* 612-617)
ReleaseThenRequest(t, rels, op, dentry, old, rpl) ==
    ceph_mdsc_do_request(ReleaseAll(t, rels), op, dentry, old, rpl)

Rel(ino, dentry, mask) == [ino |-> ino, dentry |-> dentry, mask |-> mask]

\* in: alloc_ok, req_ok, reply, and lk: the inputs of the lookup done when
\* the reply has no trace
ceph_mknod(t, dir, dentry, in) ==
    LET p  == BuildPathIn(t, dentry, in.alloc_ok)
        t1 == ceph_mdsc_create_request(p.t, OP_MKNOD, USE_AUTH_MDS)
        rq == ReleaseThenRequest(t1, <<Rel(dir, NULL, {ICONTENT})>>, OP_MKNOD,
                                 dentry, NULL, in.reply)
        err == in.reply.err
        t2 == IF err = OK THEN ReadReply(rq.t) ELSE rq.t
        lk == ceph_do_lookup(t2, dentry, FALSE, in.lk)
    IN  IF p.err # OK THEN [t |-> p.t, ret |-> p.err]
        ELSE IF ~in.req_ok THEN [t |-> d_drop(t1, dentry), ret |-> ENOMEM]
        ELSE IF err = OK /\ in.reply.numd = 0
        THEN IF lk.ret = Ptr(NULL)
             THEN [t |-> ceph_mdsc_put_request(lk.t), ret |-> OK]
             ELSE IF IS_ERR(lk.ret)
             \* dput(d) of an ERR_PTR
             THEN [t |-> Log(lk.t, [ev |-> "oops", at |-> "dput(ERR_PTR)"]),
                   ret |-> OOPS]
             \* err = -ESTALE; dentry = 0; then d_drop(dentry)
             ELSE [t |-> Log(ceph_mdsc_put_request(Log(lk.t, [ev |-> "dput"])),
                             [ev |-> "oops", at |-> "d_drop(NULL)"]),
                   ret |-> OOPS]
        ELSE [t |-> IF err # OK THEN d_drop(ceph_mdsc_put_request(t2), dentry)
                    ELSE ceph_mdsc_put_request(t2),
              ret |-> err]

ceph_symlink(t, dir, dentry, in) ==
    LET p  == BuildPathIn(t, dentry, in.alloc_ok)
        t1 == ceph_mdsc_create_request(p.t, OP_SYMLINK, USE_AUTH_MDS)
        rq == ReleaseThenRequest(t1, <<Rel(dir, NULL, {ICONTENT})>>, OP_SYMLINK,
                                 dentry, NULL, in.reply)
        t2 == ceph_mdsc_put_request(rq.t)
        err == in.reply.err
    IN  IF p.err # OK THEN [t |-> p.t, ret |-> p.err]
        ELSE IF ~in.req_ok THEN [t |-> d_drop(t1, dentry), ret |-> ENOMEM]
        ELSE [t |-> IF err # OK THEN d_drop(t2, dentry) ELSE t2, ret |-> err]

ceph_mkdir(t, dir, dentry, in) ==
    LET p  == BuildPathIn(t, dentry, in.alloc_ok)
        t1 == ceph_mdsc_create_request(p.t, OP_MKDIR, USE_AUTH_MDS)
        rq == ReleaseThenRequest(t1, <<Rel(dir, NULL, {ICONTENT})>>, OP_MKDIR,
                                 dentry, NULL, in.reply)
        t2 == ceph_mdsc_put_request(rq.t)
        err == in.reply.err
    IN  IF p.err # OK THEN [t |-> p.t, ret |-> p.err]
        ELSE IF ~in.req_ok THEN [t |-> d_drop(t1, dentry), ret |-> ENOMEM]
        ELSE [t |-> IF err # OK THEN d_drop(t2, dentry) ELSE t2, ret |-> err]

\* in: alloc_ok (oldpath), alloc_ok2 (path), req_ok, reply
ceph_link(t, old_dentry, dir, dentry, in) ==
    LET po == BuildPathIn(t, old_dentry, in.alloc_ok)
        p  == BuildPathIn(po.t, dentry, in.alloc_ok2)
        t1 == ceph_mdsc_create_request(p.t, OP_LINK, USE_AUTH_MDS)
        rq == ReleaseThenRequest(t1, <<Rel(dir, NULL, {ICONTENT})>>, OP_LINK,
                                 dentry, old_dentry, in.reply)
        t2 == ceph_mdsc_put_request(rq.t)
        err == in.reply.err
        \* the trace length is read after the request was put
        t3 == ReadReply(t2)
        inode == t3.inode[old_dentry]
    IN  IF po.err # OK THEN [t |-> po.t, ret |-> po.err]
        ELSE IF p.err # OK THEN [t |-> p.t, ret |-> p.err]
        ELSE IF ~in.req_ok THEN [t |-> d_drop(t1, dentry), ret |-> ENOMEM]
        ELSE IF err # OK THEN [t |-> d_drop(t2, dentry), ret |-> err]
        ELSE IF in.reply.numd = 0
        THEN [t |-> d_instantiate(inc_nlink(t3, inode), dentry, inode), ret |-> err]
        ELSE [t |-> t3, ret |-> err]

ceph_unlink(t, dir, dentry, in) ==
    LET inode == t.inode[dentry]
        op == IF inode \in DirInodes THEN OP_RMDIR ELSE OP_UNLINK
        p  == BuildPathIn(t, dentry, in.alloc_ok)
        t1 == ceph_mdsc_create_request(p.t, op, USE_AUTH_MDS)
        rq == ReleaseThenRequest(t1, <<Rel(dir, dentry, {DN, ICONTENT}),
                                       Rel(inode, NULL, {ILINK})>>,
                                 op, dentry, NULL, in.reply)
        t2 == ceph_mdsc_put_request(rq.t)
        err == in.reply.err
        t3 == ReadReply(t2)
    IN  IF p.err # OK THEN [t |-> p.t, ret |-> p.err]
        ELSE IF ~in.req_ok THEN [t |-> t1, ret |-> ENOMEM]
        ELSE IF err = ENOENT THEN [t |-> t2, ret |-> err]
        ELSE IF in.reply.numd = 0
        THEN [t |-> Log(drop_nlink(t3, t3.inode[dentry]), [ev |-> "dput"]),
              ret |-> err]
        ELSE [t |-> t3, ret |-> err]

\* in: alloc_ok (oldpath), alloc_ok2 (newpath), req_ok, reply
ceph_rename(t, old_dir, old_dentry, new_dir, new_dentry, in) ==
    LET po == BuildPathIn(t, old_dentry, in.alloc_ok)
        p  == BuildPathIn(po.t, new_dentry, in.alloc_ok2)
        t1 == ceph_mdsc_create_request(p.t, OP_RENAME, USE_AUTH_MDS)
        rels == <<Rel(old_dir, old_dentry, {DN, ICONTENT})>> \o
                (IF t1.inode[new_dentry] # NULL
                 THEN <<Rel(t1.inode[new_dentry], NULL, {ILINK})>> ELSE <<>>)
        rq == ReleaseThenRequest(t1, rels, OP_RENAME, new_dentry, old_dentry,
                                 in.reply)
        err == in.reply.err
        t2 == IF err = OK THEN ReadReply(rq.t) ELSE rq.t
        t3 == IF err = OK /\ in.reply.numd = 0
              THEN d_move(IF t2.inode[new_dentry] # NULL
                          THEN Log(t2, [ev |-> "dput"]) ELSE t2,
                          old_dentry, new_dentry)
              ELSE t2
    IN  IF po.err # OK THEN [t |-> po.t, ret |-> po.err]
        ELSE IF p.err # OK THEN [t |-> p.t, ret |-> p.err]
        ELSE IF ~in.req_ok THEN [t |-> t1, ret |-> ENOMEM]
        ELSE [t |-> ceph_mdsc_put_request(t3), ret |-> err]

(***************************************************************************)
(* Directory listing.  A fragment id is (bits, value): the fragment covers *)
(* the hash values that agree with value on their bits highest bits.  The  *)
(* operations on fragment ids (ceph_frag.h) are modelled with hash values  *)
(* of MaxBits bits.                                                        *)
(***************************************************************************)
Word == 2 ^ WordBits
Values == 2 ^ MaxBits

frag_make(b, v) == b * Values + v
frag_bits(f) == f \div Values
frag_value(f) == f % Values
\* the hash values of a fragment of depth b are Stride(b) apart
Stride(b) == IF b > MaxBits THEN 1 ELSE 2 ^ (MaxBits - b)
frag_mask(f) == Values - Stride(frag_bits(f))
frag_is_leftmost(f) == frag_value(f) = 0
frag_next(f) == frag_make(frag_bits(f), frag_value(f) + Stride(frag_bits(f)))

\* the fragments of a directory whose fragment tree has depth b
Leaves(b) == {frag_make(b, k * Stride(b)) : k \in 0 .. (2 ^ b - 1)}

\* ceph_choose_frag(ci, v, 0): the fragment of the directory that holds the
\* hash value of v
ceph_choose_frag(f) ==
    frag_make(dir_bits, frag_value(f) - (frag_value(f) % Stride(dir_bits)))

\* a loff_t is a signed integer of two words
ToSigned(x) == IF x >= (Word * Word) \div 2 THEN x - Word * Word ELSE x
make_fpos(frag, off) == ToSigned((frag * Word + off) % (Word * Word))
\* the shifted cursor, not truncated to an unsigned int
FposFragSigned(p) == p \div Word
fpos_frag(p) == (p \div Word) % Word
fpos_off(p) == p % Word
\* inode->i_sb->s_maxbytes
s_maxbytes == (Word * Word) \div 2 - 1

\* the reply of the MDS to the readdir of fragment f: rinfo->dir_dname
Listing(f) == [k \in 1 .. dir_nr[f] |-> ToString(f) \o "." \o ToString(k)]

\* filldir: the consumer takes the entry, or refuses it when it holds cap
\* entries already.  src is <<the fragment whose listing the name comes
\* from>>, or <<>> for '.' and '..'; frag is the fragment ceph_readdir is in.
filldir(s, name, pos, src, frag) ==
    IF Len(s.out) < s.cap
    THEN [s EXCEPT !.out = Append(@, [name |-> name, pos |-> pos, src |-> src,
                                      frag |-> frag])]
    ELSE [s EXCEPT !.refused = TRUE]

\* filp->f_pos++
IncPos(s) == [s EXCEPT !.f_pos = @ + 1]

\* lines 137-155: the listing of frag is fetched and replaces the cached one;
\* fail_pre keeps the cursor and the cache a failing fetch was entered with
FetchFragment(s0, frag, in) ==
    Only({ IF in.fail = "req" /\ s.nfetch + 1 = in.fail_at
           THEN [s |-> [s EXCEPT !.fail_pre = <<[f_pos |-> s0.f_pos,
                                                 last |-> s0.last]>>],
                 ret |-> ENOMEM]
           ELSE IF in.fail = "reply" /\ s.nfetch + 1 = in.fail_at
           THEN [s |-> [ceph_mdsc_put_request(
                           Log(s, [ev |-> "do_request", op |-> OP_READDIR]))
                          EXCEPT !.fail_pre = <<[f_pos |-> s0.f_pos,
                                                 last |-> s0.last]>>],
                 ret |-> EACCES]
           ELSE [s |-> [(IF s.last # <<>>
                         THEN ceph_mdsc_put_request(
                                  Log(s, [ev |-> "do_request", op |-> OP_READDIR]))
                         ELSE Log(s, [ev |-> "do_request", op |-> OP_READDIR]))
                          EXCEPT !.last = <<[frag |-> frag, dname |-> Listing(frag)]>>,
                                 !.nfetch = @ + 1],
                 ret |-> OK]
           : s \in {ceph_mdsc_create_request(s0, OP_READDIR, USE_AUTH_MDS)} })

\* lines 168-176: case 1 of the switch
EmitDotDot(s0, frag) ==
    Only({ IF s.refused THEN [s |-> s, off |-> 1]
           ELSE [s |-> IncPos(s), off |-> 2]
           : s \in {filldir(s0, "..", make_fpos(0, 1), <<>>, frag)} })

\* '.' and '..' at the offsets 0 and 1 of every fragment
EmitDotsAnyFrag(s0, frag, off) ==
    IF off > 1 THEN [s |-> s0, off |-> off]
    ELSE IF off = 1 THEN EmitDotDot(s0, frag)
    ELSE Only({ IF s.refused THEN [s |-> s, off |-> 0]
                ELSE EmitDotDot(IncPos(s), frag)
                : s \in {filldir(s0, ".", make_fpos(0, 0), <<>>, frag)} })

\* lines 159-180: '.' and '..' at the offsets 0 and 1 of a leftmost fragment
EmitDots(s0, frag, off) ==
    IF ~frag_is_leftmost(frag) \/ off > 1 THEN [s |-> s0, off |-> off]
    ELSE IF off = 1 THEN EmitDotDot(s0, frag)
    ELSE Only({ IF s.refused THEN [s |-> s, off |-> 0]
                ELSE EmitDotDot(IncPos(s), frag)
                : s \in {filldir(s0, ".", make_fpos(0, 0), <<>>, frag)} })

\* lines 185-202: the names of the cached listing from off on; skew and
\* off + skew are unsigned
RECURSIVE EmitEntries(_, _, _, _)
EmitEntries(s0, frag, off0, skew) ==
    Only({ IF (off + skew) % Word < Len(s.last[1].dname)
           THEN Only({ IF a.refused THEN [s |-> a, off |-> off]
                       ELSE EmitEntries(IncPos(a), frag, off + 1, skew)
                       : a \in {filldir(s, s.last[1].dname[((off + skew) % Word) + 1],
                                        make_fpos(frag, off), <<s.last[1].frag>>,
                                        frag)} })
           ELSE [s |-> s, off |-> off]
           : s \in {s0}, off \in {off0} })

\* lines 126-214: from the label nextfrag on
RECURSIVE NextFrag(_, _, _, _)
\* the entries of one fragment, without going on to the next
ReaddirEmitOneFrag(s0, frag, off, in) ==
    [s |-> EmitEntries(EmitDots(s0, frag, off).s, frag,
                       EmitDots(s0, frag, off).off,
                       IF frag_is_leftmost(frag) THEN Word - 2 ELSE 0).s,
     ret |-> OK]

ReaddirEmit(s0, frag, off, in) ==
    Only({ IF d.s.refused THEN [s |-> d.s, ret |-> OK]
           ELSE Only({ IF e.s.refused THEN [s |-> e.s, ret |-> OK]
                       ELSE IF frag_value(frag) # frag_mask(frag)
                       THEN NextFrag([e.s EXCEPT !.f_pos =
                                         make_fpos(frag_next(frag), 0)],
                                     frag_next(frag), 0, in)
                       ELSE [s |-> e.s, ret |-> OK]
                       : e \in {EmitEntries(d.s, frag, d.off,
                                            IF frag_is_leftmost(frag)
                                            THEN Word - 2 ELSE 0)} })
           : d \in {EmitDots(s0, frag, off)} })

NextFrag(s0, frag, off, in) ==
    Only({ IF fi_frag # frag \/ s.last = <<>>
           THEN Only({ IF f.ret # OK THEN f
                       ELSE ReaddirEmit(f.s, ceph_choose_frag(frag), off, in)
                       : f \in {FetchFragment(s, ceph_choose_frag(frag), in)} })
           ELSE ReaddirEmit(s, frag, off, in)
           : s \in {s0} })

\* in: cap (the entries the consumer takes), fail and fail_at (which fetch
\* fails, and how)
ceph_readdir(in) ==
    NextFrag([f_pos |-> f_pos, last |-> last_readdir, out |-> <<>>,
              log |-> <<>>, cap |-> in.cap, refused |-> FALSE, nfetch |-> 0,
              fail_pre |-> <<>>],
             fpos_frag(f_pos), fpos_off(f_pos), in)

SEEK_SET == "SEEK_SET"
SEEK_CUR == "SEEK_CUR"
SEEK_END == "SEEK_END"

\* the cached listing is dropped only by a seek that moves the cursor to 0
LlseekDropsOnlyWhenMoved(offset0, origin, i_size) ==
    LET offset == IF origin = SEEK_END THEN offset0 + i_size
                  ELSE IF origin = SEEK_CUR THEN offset0 + f_pos
                  ELSE offset0
    IN  IF offset >= 0 /\ offset <= s_maxbytes
        THEN [f_pos |-> offset, retval |-> offset, valid |-> TRUE,
              last |-> IF offset = 0 /\ offset # f_pos THEN <<>> ELSE last_readdir,
              log |-> IF offset = 0 /\ offset # f_pos /\ last_readdir # <<>>
                      THEN <<[ev |-> "put_request"]>> ELSE <<>>]
        ELSE [f_pos |-> f_pos, retval |-> EINVAL, valid |-> FALSE,
              last |-> last_readdir, log |-> <<>>]

\* ceph_dir_llseek(file, offset, origin), in a directory of size i_size
ceph_dir_llseek(offset0, origin, i_size) ==
    LET offset == IF origin = SEEK_END THEN offset0 + i_size
                  ELSE IF origin = SEEK_CUR THEN offset0 + f_pos
                  ELSE offset0
    IN  IF offset >= 0 /\ offset <= s_maxbytes
        THEN [f_pos |-> offset, retval |-> offset, valid |-> TRUE,
              last |-> IF offset = 0 THEN <<>> ELSE last_readdir,
              log |-> IF offset = 0 /\ last_readdir # <<>>
                      THEN <<[ev |-> "put_request"]>> ELSE <<>>]
        ELSE [f_pos |-> f_pos, retval |-> EINVAL, valid |-> FALSE,
              last |-> last_readdir, log |-> <<>>]

\* the most entries a listing of the whole directory has
CapAll == 2 + (2 ^ MaxBits) * MaxEntries
\* the consumer refuses '.', '..' or the entry after them, or none
ReaddirIn ==
    {i \in [cap : (0 .. 2) \cup {CapAll}, fail : {"none", "req", "reply"},
            fail_at : 1 .. 2] :
        i.fail = "none" => i.fail_at = 1}

\* readdir returned: the session and the record of the call.  seq is <<the
\* names emitted by this and the earlier calls>> when the session was only
\* read, from cursor 0 on, by calls that returned 0, and <<>> otherwise
ReaddirReturned(in, r) ==
    /\ f_pos' = r.s.f_pos
    /\ last_readdir' = r.s.last
    /\ call' = [op |-> "readdir", ret |-> r.ret, out |-> r.s.out,
                refused |-> r.s.refused, log |-> r.s.log,
                pre_f_pos |-> f_pos, pre_last |-> last_readdir,
                sought |-> (call.op = "llseek" /\ call.moved),
                nfetch |-> r.s.nfetch, fail_pre |-> r.s.fail_pre,
                seq |-> IF r.ret # OK THEN <<>>
                        ELSE IF call.op = "none" /\ f_pos = 0
                        THEN <<[i \in 1 .. Len(r.s.out) |-> r.s.out[i].name]>>
                        ELSE IF call.op = "readdir" /\ call.seq # <<>>
                        THEN <<call.seq[1]
                               \o [i \in 1 .. Len(r.s.out) |-> r.s.out[i].name]>>
                        ELSE <<>>]
    /\ UNCHANGED <<fi_frag, dir_bits, dir_nr>>

(***************************************************************************)
(* The operations specification: the VFS calls the handlers on the tree.   *)
(***************************************************************************)
InitOps ==
    \E pos4 \in BOOLEAN :
    /\ d_used = [d \in OpsDentries |-> d <= 4]
    /\ d_parent = [d \in OpsDentries |->
                      IF d <= 3 THEN 1 ELSE IF d = 4 THEN 2 ELSE NULL]
    /\ d_name = [d \in OpsDentries |->
                    IF d = 1 THEN RootName
                    ELSE IF d = 3 THEN NameBC
                    ELSE IF d <= 4 THEN NameA ELSE <<>>]
    /\ d_inode = [d \in OpsDentries |->
                     IF d <= 3 \/ (d = 4 /\ pos4) THEN d ELSE NULL]
    /\ d_time = [d \in OpsDentries |-> IF d <= 4 THEN MaxVersion ELSE 0]
    /\ d_lease = [d \in OpsDentries |-> d \in {2, 3} \/ (d = 4 /\ pos4)]
    /\ d_hashed = [d \in OpsDentries |-> d <= 3 \/ (d = 4 /\ pos4)]
    /\ i_version = [i \in OpsInodes |-> MaxVersion]
    /\ i_content = [i \in OpsInodes |-> i \in DirInodes]
    /\ i_nlink = [i \in OpsInodes |->
                     IF i \in DirInodes THEN 2
                     ELSE IF i = 3 \/ (i = 4 /\ pos4) THEN 1 ELSE 0]
    /\ n_calls = 0
    /\ ThreadsIdle
    /\ CmdIdle
    /\ call = NoCall
    /\ bp = BpIdle
    /\ n_renames = 0
    /\ DirIdle

\* the inputs the environment chooses
LookupIn == [alloc_ok : BOOLEAN, req_ok : BOOLEAN, reply : Replies]
NoLookup == [alloc_ok |-> TRUE, req_ok |-> TRUE,
             reply |-> [err |-> OK, numd |-> 1, splice |-> FALSE]]
MutReplies == {r \in Replies : ~r.splice}
CreateIn == [alloc_ok : BOOLEAN, req_ok : BOOLEAN, reply : MutReplies]
MknodIn ==
    {i \in [alloc_ok : BOOLEAN, req_ok : BOOLEAN, reply : MutReplies,
            lk : LookupIn] :
        (i.reply.err = OK /\ i.reply.numd = 0) \/ i.lk = NoLookup}
TwoPathIn == [alloc_ok : BOOLEAN, alloc_ok2 : BOOLEAN, req_ok : BOOLEAN,
              reply : MutReplies]

\* the handler returned r: its tree becomes the state, and the call is recorded
Returned(op, dentry, old, dir, in, r) ==
    /\ n_calls < MaxCalls
    /\ n_calls' = n_calls + 1
    /\ d_name' = r.t.name
    /\ d_parent' = r.t.parent
    /\ d_inode' = r.t.inode
    /\ d_time' = r.t.time
    /\ d_lease' = r.t.lease
    /\ d_hashed' = r.t.hashed
    /\ i_version' = r.t.version
    /\ i_content' = r.t.content
    /\ i_nlink' = r.t.nlink
    /\ d_used' = r.t.used
    /\ call' = [op |-> op, dentry |-> dentry, old |-> old, dir |-> dir,
                in |-> in, ret |-> r.ret, log |-> r.t.log,
                pre_inode |-> d_inode, pre_nlink |-> i_nlink,
                pre_used |-> d_used, pre_parent |-> d_parent,
                pre_name |-> d_name,
                cinode |-> r.t.cinode, cnlink |-> r.t.cnlink]
    /\ UNCHANGED OutsideOps

\* the VFS passes dentries of the tree whose directory exists
IsDentry(d) == d_used[d] /\ ~IS_ROOT(T, d) /\ d_inode[d_parent[d]] # NULL
DirOf(d) == d_inode[d_parent[d]]

Lookup(d, on_inode, in) ==
    /\ IsDentry(d)
    /\ on_inode => d_inode[d] # NULL
    /\ Returned(IF on_inode THEN "lookup_ino" ELSE "lookup", d, NULL, DirOf(d),
                in, ceph_do_lookup(OT, d, on_inode, in))

Mknod(d, in) ==
    /\ IsDentry(d) /\ d_inode[d] = NULL
    /\ Returned("mknod", d, NULL, DirOf(d), in, ceph_mknod(OT, DirOf(d), d, in))

Symlink(d, in) ==
    /\ IsDentry(d) /\ d_inode[d] = NULL
    /\ Returned("symlink", d, NULL, DirOf(d), in,
                ceph_symlink(OT, DirOf(d), d, in))

Mkdir(d, in) ==
    /\ IsDentry(d) /\ d_inode[d] = NULL
    /\ Returned("mkdir", d, NULL, DirOf(d), in, ceph_mkdir(OT, DirOf(d), d, in))

Link(old, d, in) ==
    /\ IsDentry(old) /\ d_inode[old] # NULL /\ d_inode[old] \notin DirInodes
    /\ IsDentry(d) /\ d_inode[d] = NULL
    /\ Returned("link", d, old, DirOf(d), in,
                ceph_link(OT, old, DirOf(d), d, in))

Unlink(d, in) ==
    /\ IsDentry(d) /\ d_inode[d] # NULL
    /\ Returned("unlink", d, NULL, DirOf(d), in,
                ceph_unlink(OT, DirOf(d), d, in))

Rename(old, new, in) ==
    /\ IsDentry(old) /\ d_inode[old] # NULL
    /\ IsDentry(new) /\ new # old
    /\ ~IsAncestorOrSelf(old, new)
    /\ ~IsAncestorOrSelf(new, old)
    /\ Returned("rename", new, old, DirOf(old), in,
                ceph_rename(OT, DirOf(old), old, DirOf(new), new, in))

\* the VFS reads the open directory
OpsReaddir(in) ==
    /\ n_calls < MaxCalls
    /\ n_calls' = n_calls + 1
    /\ ReaddirReturned(in, ceph_readdir(in))
    /\ UNCHANGED OutsideDir

NextOps ==
    \/ \E in \in ReaddirIn : OpsReaddir(in)
    \/ \E d \in OpsDentries, on_inode \in BOOLEAN, in \in LookupIn :
          Lookup(d, on_inode, in)
    \/ \E d \in OpsDentries, in \in MknodIn : Mknod(d, in)
    \/ \E d \in OpsDentries, in \in CreateIn : Symlink(d, in)
    \/ \E d \in OpsDentries, in \in CreateIn : Mkdir(d, in)
    \/ \E old \in OpsDentries, d \in OpsDentries, in \in TwoPathIn :
          Link(old, d, in)
    \/ \E d \in OpsDentries, in \in CreateIn : Unlink(d, in)
    \/ \E old \in OpsDentries, new \in OpsDentries, in \in TwoPathIn :
          Rename(old, new, in)

SpecOps == InitOps /\ [][NextOps]_vars

(***************************************************************************)
(* The directory specification: one listing session on a directory that    *)
(* does not change.                                                        *)
(***************************************************************************)
\* ceph_open leaves a zeroed ceph_file_info; the directory has a leftmost
\* fragment of first names, and rest names in every other fragment
InitDir ==
    /\ d_parent = [d \in Dentries |-> IF d = 1 THEN 1 ELSE d - 1]
    /\ d_name = [d \in Dentries |-> IF d = 1 THEN RootName ELSE NameA]
    /\ d_inode = [d \in Dentries |-> d]
    /\ d_time = [d \in Dentries |-> 0]
    /\ d_lease = [d \in Dentries |-> d # 1]
    /\ d_hashed = [d \in Dentries |-> TRUE]
    /\ i_version = [i \in Inodes |-> MaxVersion]
    /\ i_content = [i \in Inodes |-> FALSE]
    /\ call = NoCall
    /\ bp = BpIdle
    /\ n_renames = 0
    /\ OpsIdle
    /\ f_pos = 0
    /\ fi_frag = 0
    /\ last_readdir = <<>>
    /\ dir_bits \in 0 .. MaxBits
    /\ \E first \in 0 .. MaxEntries, rest \in 0 .. MaxEntries :
          dir_nr = [f \in Leaves(dir_bits) |->
                       IF frag_is_leftmost(f) THEN first ELSE rest]

Readdir(in) ==
    /\ ReaddirReturned(in, ceph_readdir(in))
    /\ UNCHANGED <<OutsideDir, n_calls>>

\* the seeks of a consumer: to a cursor, which may be out of range, to
\* where it is, and to the end of a directory of some size
SeekIn ==
    [origin : {SEEK_SET}, i_size : {0},
     offset : {-1} \cup {make_fpos(f, o) : f \in {0} \cup Leaves(dir_bits),
                                           o \in 0 .. (MaxEntries + 2)}]
    \cup [origin : {SEEK_CUR}, i_size : {0}, offset : {0}]
    \cup [origin : {SEEK_END}, i_size : {0, 1}, offset : {0}]

Llseek(offset, origin, i_size) ==
    LET r == ceph_dir_llseek(offset, origin, i_size) IN
    /\ f_pos' = r.f_pos
    /\ last_readdir' = r.last
    /\ call' = [op |-> "llseek", ret |-> r.retval, log |-> r.log,
                pre_f_pos |-> f_pos, pre_last |-> last_readdir,
                moved |-> (origin = SEEK_SET /\ r.f_pos = offset),
                valid |-> r.valid]
    /\ UNCHANGED <<fi_frag, dir_bits, dir_nr, OutsideDir, n_calls>>

NextDir ==
    \/ \E in \in ReaddirIn : Readdir(in)
    \/ \E in \in SeekIn : Llseek(in.offset, in.origin, in.i_size)

SpecDir == InitDir /\ [][NextDir]_vars

(***************************************************************************)
(* The corrupt-tree specification: one dentry of the chain has no parent   *)
(* (d_parent is NULL), and ceph_build_dentry_path is called on every       *)
(* dentry and on NULL.                                                     *)
(***************************************************************************)
InitCorrupt ==
    /\ \E c \in Dentries \ {1} :
          d_parent = [d \in Dentries |->
                         IF d = 1 THEN 1 ELSE IF d = c THEN NULL ELSE d - 1]
    /\ \E n \in [Dentries \ {1} -> Names] :
          d_name = [d \in Dentries |-> IF d = 1 THEN RootName ELSE n[d]]
    /\ \E neg \in BOOLEAN :
          d_inode = [d \in Dentries |-> IF d = NDentry /\ neg THEN NULL ELSE d]
    /\ d_time = [d \in Dentries |-> 0]
    /\ \E l \in [Dentries \ {1} -> BOOLEAN] :
          d_lease = [d \in Dentries |-> d # 1 /\ l[d]]
    /\ d_hashed = [d \in Dentries |-> TRUE]
    /\ i_version = [i \in Inodes |-> MaxVersion]
    /\ i_content = [i \in Inodes |-> FALSE]
    /\ call = NoCall
    /\ bp = BpIdle
    /\ n_renames = 0
    /\ OpsIdle
    /\ DirIdle

NextCorrupt ==
    \E d \in Dentries \cup {NULL}, alloc_ok \in BOOLEAN : BuildPathCall(d, alloc_ok)

SpecCorrupt == InitCorrupt /\ [][NextCorrupt]_vars

\* the first loop, walking up from d, comes to a dentry without parent
RECURSIVE MeetsAbsentParent(_)
MeetsAbsentParent(d) ==
    IF IS_ROOT(T, d) THEN FALSE
    ELSE IF d_parent[d] = NULL THEN TRUE
    ELSE IF d_inode[d] # NULL /\ ~ceph_dentry_revalidate(T, d) THEN FALSE
    ELSE MeetsAbsentParent(d_parent[d])

\* C17: ceph_build_dentry_path returns -EINVAL for a NULL dentry; when the
\* walk comes to a dentry without parent it returns an error that is not
\* the one for a NULL dentry; in both cases no path is returned and *plen
\* and *base are not set.
C17_AbsentParentIsDistinctError ==
    call.op = "build_path" =>
        /\ call.dentry = NULL => call.err = EINVAL
        /\ (call.dentry # NULL /\ MeetsAbsentParent(call.dentry)) =>
              /\ call.err \notin {OK, OOPS}
              /\ call.err # EINVAL
        /\ call.err # OK =>
              call.path = <<>> /\ call.plen = UNSET /\ call.base = UNSET

(***************************************************************************)
(* The lease specification: replies record new versions of the             *)
(* directories and fill dentries under the version of their directory,     *)
(* leases expire, and the VFS revalidates dentries.                        *)
(***************************************************************************)
InitLease ==
    /\ d_parent = [d \in Dentries |-> IF d = 1 THEN 1 ELSE d - 1]
    /\ d_name = [d \in Dentries |-> IF d = 1 THEN RootName ELSE NameA]
    /\ d_inode = [d \in Dentries |-> d]
    /\ d_time = [d \in Dentries |-> 0]
    /\ d_lease = [d \in Dentries |-> FALSE]
    /\ d_hashed = [d \in Dentries |-> TRUE]
    /\ i_version = [i \in Inodes |-> 0]
    /\ i_content = [i \in Inodes |-> TRUE]
    /\ call = NoCall
    /\ bp = BpIdle
    /\ n_renames = 0
    /\ OpsIdle
    /\ DirIdle

\* a reply carries the attributes of directory i: its version, which the
\* MDS only ever increases, is recorded
RecordVersion(i, v) ==
    /\ \E d \in Dentries : ~IS_ROOT(T, d) /\ DirOf(d) = i
    /\ v > i_version[i]
    /\ i_version' = [i_version EXCEPT ![i] = v]
    /\ UNCHANGED <<d_name, d_parent, d_inode, d_time, d_lease, d_hashed,
                   i_content, call, OutsidePath>>

\* the trace of a reply fills dentry d: it is valid under the version its
\* directory has now, and holds a lease
FillDentry(d) ==
    /\ ~IS_ROOT(T, d)
    /\ d_time' = [d_time EXCEPT ![d] = i_version[DirOf(d)]]
    /\ d_lease' = [d_lease EXCEPT ![d] = TRUE]
    /\ d_hashed' = [d_hashed EXCEPT ![d] = TRUE]
    /\ UNCHANGED <<d_name, d_parent, d_inode, i_version, i_content, call,
                   OutsidePath>>

NextLease ==
    \/ \E i \in Inodes, v \in Versions : RecordVersion(i, v)
    \/ \E d \in Dentries : FillDentry(d)
    \/ \E d \in Dentries : ExpireLease(d)
    \/ \E d \in Dentries : Revalidate(d)

SpecLease == InitLease /\ [][NextLease]_vars

Threads == 1 .. NThreads

ThIdle == [pc |-> "idle", dentry |-> NULL, dir |-> NULL, inode |-> NULL,
           op |-> "none", ret |-> UNSET]

\* the entries 2 .. NDentry of the root directory are files, the leases on
\* them and on the directory are held
InitUnlink2 ==
    /\ d_parent = [d \in Dentries |-> 1]
    /\ d_name = [d \in Dentries |->
                    IF d = 1 THEN RootName
                    ELSE IF d % 2 = 0 THEN NameA ELSE NameBC]
    /\ d_inode = [d \in Dentries |-> d]
    /\ d_time = [d \in Dentries |-> MaxVersion]
    /\ d_lease = [d \in Dentries |-> d # 1]
    /\ d_hashed = [d \in Dentries |-> TRUE]
    /\ i_version = [i \in Inodes |-> MaxVersion]
    /\ i_content = [i \in Inodes |-> i = 1]
    /\ i_nlink = [i \in Inodes |-> IF i = 1 THEN 2 ELSE 1]
    /\ d_used = [d \in Dentries |-> TRUE]
    /\ n_calls = 0
    /\ call = NoCall
    /\ bp = BpIdle
    /\ n_renames = 0
    /\ DirIdle
    /\ CmdIdle
    /\ th = [k \in Threads |-> ThIdle]
    /\ trace = <<>>

\* the tree as a handler's step left it
SetTree(t) ==
    /\ d_name' = t.name
    /\ d_parent' = t.parent
    /\ d_inode' = t.inode
    /\ d_time' = t.time
    /\ d_lease' = t.lease
    /\ d_hashed' = t.hashed
    /\ i_version' = t.version
    /\ i_content' = t.content
    /\ i_nlink' = t.nlink
    /\ d_used' = t.used

UnlinkFrame == <<call, n_calls, raceVars, dirVars, cmdVars>>

\* lines 538-561: thread k enters ceph_unlink on dentry d, builds the path
\* and creates the request
UL_Enter(k, d, in) ==
    LET inode == d_inode[d]
        op == IF inode \in DirInodes THEN OP_RMDIR ELSE OP_UNLINK
        p  == BuildPathIn(OT, d, in.alloc_ok)
        me == [th[k] EXCEPT !.dentry = d, !.dir = DirOf(d), !.inode = inode,
                            !.op = op]
    IN  /\ th[k].pc = "idle"
        /\ ~IS_ROOT(T, d) /\ d_inode[d] # NULL
        /\ \A j \in Threads : th[j].dentry # d
        /\ SetTree(p.t)
        /\ th' = [th EXCEPT ![k] =
                     IF p.err # OK THEN [me EXCEPT !.pc = "done", !.ret = p.err]
                     ELSE IF ~in.req_ok
                     THEN [me EXCEPT !.pc = "done", !.ret = ENOMEM]
                     ELSE [me EXCEPT !.pc = "created"]]
        /\ UNCHANGED <<trace, UnlinkFrame>>

\* lines 562-563: the lease on the directory and on the dentry is given up
UL_ReleaseDir(k) ==
    /\ th[k].pc = "created"
    /\ SetTree(ceph_mdsc_lease_release(OT, th[k].dir, th[k].dentry,
                                       {DN, ICONTENT}))
    /\ trace' = Append(trace, [ev |-> "lease_release", thread |-> k,
                               dir |-> th[k].dir])
    /\ th' = [th EXCEPT ![k].pc = "released_dir"]
    /\ UNCHANGED UnlinkFrame

\* line 564: the link lease on the inode is given up
UL_ReleaseInode(k) ==
    /\ th[k].pc = "released_dir"
    /\ SetTree(ceph_mdsc_lease_release(OT, th[k].inode, NULL, {ILINK}))
    /\ th' = [th EXCEPT ![k].pc = "released"]
    /\ UNCHANGED <<trace, UnlinkFrame>>

\* line 565: ceph_mdsc_do_request sends the request and waits
UL_Dispatch(k) ==
    /\ th[k].pc = "released"
    /\ trace' = Append(trace, [ev |-> "do_request", thread |-> k,
                               dir |-> th[k].dir])
    /\ th' = [th EXCEPT ![k].pc = "waiting"]
    /\ UNCHANGED <<treeVars, i_nlink, d_used, UnlinkFrame>>

\* lines 565-576: the reply arrives, its trace is applied, and ceph_unlink
\* returns
UL_Reply(k, rpl) ==
    LET d  == th[k].dentry
        rq == ceph_mdsc_do_request(OT, th[k].op, d, NULL, rpl)
        t2 == ceph_mdsc_put_request(rq.t)
        t3 == ReadReply(t2)
    IN  /\ th[k].pc = "waiting"
        /\ SetTree(IF rpl.err = ENOENT THEN t2
                   ELSE IF rpl.numd = 0
                   THEN Log(drop_nlink(t3, t3.inode[d]), [ev |-> "dput"])
                   ELSE t3)
        /\ th' = [th EXCEPT ![k].pc = "done", ![k].ret = rpl.err]
        /\ UNCHANGED <<trace, UnlinkFrame>>

NextUnlink2 ==
    \/ \E k \in Threads, d \in Dentries,
          in \in [alloc_ok : BOOLEAN, req_ok : BOOLEAN] : UL_Enter(k, d, in)
    \/ \E k \in Threads : UL_ReleaseDir(k)
    \/ \E k \in Threads : UL_ReleaseInode(k)
    \/ \E k \in Threads : UL_Dispatch(k)
    \/ \E k \in Threads, rpl \in MutReplies : UL_Reply(k, rpl)

SpecUnlink2 == InitUnlink2 /\ [][NextUnlink2]_vars

\* the positions in trace of the events ev of directory dir
TraceIdx(ev, dir) ==
    {i \in 1 .. Len(trace) : trace[i].ev = ev /\ trace[i].dir = dir}

IdleState ==
    /\ d_parent = [d \in Dentries |-> IF d = 1 THEN 1 ELSE d - 1]
    /\ d_name = [d \in Dentries |-> IF d = 1 THEN RootName ELSE NameA]
    /\ d_inode = [d \in Dentries |-> d]
    /\ d_time = [d \in Dentries |-> 0]
    /\ d_lease = [d \in Dentries |-> d # 1]
    /\ d_hashed = [d \in Dentries |-> TRUE]
    /\ i_version = [i \in Inodes |-> MaxVersion]
    /\ i_content = [i \in Inodes |-> FALSE]
    /\ bp = BpIdle
    /\ n_renames = 0
    /\ OpsIdle
    /\ DirIdle

InitFpos ==
    /\ IdleState
    /\ \/ \E frag \in 0 .. (Word - 1), off \in 0 .. (Word - 1) :
             call = [op |-> "pair", frag |-> frag, off |-> off]
       \/ \E p \in (0 - s_maxbytes - 1) .. s_maxbytes :
             call = [op |-> "cursor", pos |-> p]

\* make_fpos(frag, off)
Encode ==
    /\ call.op = "pair"
    /\ call' = [op |-> "encoded", frag |-> call.frag, off |-> call.off,
                pos |-> make_fpos(call.frag, call.off)]
    /\ UNCHANGED <<treeVars, OutsidePath>>

\* fpos_frag(pos) and fpos_off(pos) of an encoded pair, or of a cursor
Decode ==
    /\ call.op \in {"encoded", "cursor"}
    /\ call' = [op |-> IF call.op = "encoded" THEN "decoded" ELSE "split",
                in |-> call, frag |-> fpos_frag(call.pos),
                off |-> fpos_off(call.pos)]
    /\ UNCHANGED <<treeVars, OutsidePath>>

\* make_fpos of the two halves of a cursor
Reencode ==
    /\ call.op = "split"
    /\ call' = [op |-> "joined", in |-> call.in,
                pos |-> make_fpos(call.frag, call.off)]
    /\ UNCHANGED <<treeVars, OutsidePath>>

NextFpos == Encode \/ Decode \/ Reencode

SpecFpos == InitFpos /\ [][NextFpos]_vars

\* C13: a fragment id and an offset of one word each, encoded by make_fpos,
\* are what fpos_frag and fpos_off decode from the cursor, also when the
\* fragment id has its top bit set and the cursor is negative; and every
\* cursor is the encoding of what it decodes to.
C13_FposRoundTrip ==
    /\ call.op = "decoded" => /\ call.frag = call.in.frag
                              /\ call.off = call.in.off
    /\ call.op = "joined" => call.pos = call.in.pos

\* a fragment id with the top bit set went through a negative cursor
C13_Witness ==
    /\ call.op = "decoded"
    /\ call.in.frag >= Word \div 2
    /\ call.in.pos < 0
    /\ call.frag = call.in.frag

(***************************************************************************)
(* The monitor command client (src/ceph.cc).  One thread calls do_command; *)
(* the timer thread runs C_Resend::finish and the dispatcher thread runs   *)
(* handle_ack, each with the mutex `lock` held, as do_command holds it     *)
(* from its entry until cond.Wait.  A command message reaches its monitor, *)
(* which answers with an acknowledgement, or is lost.  The connection to a *)
(* monitor carries one command message at a time (a message sent while     *)
(* another is on its way replaces it, which is then lost), and one         *)
(* acknowledgement at a time is on its way to the client.                  *)
(***************************************************************************)
Mons == 1 .. NMon
Cmds == 1 .. MaxCmds
\* the result codes a monitor answers with
RCs == {0, -1}
\* the addresses `new C_Resend` returns
EventIds == {1, 2, 3}

\* the globals of ceph.cc as a record; running is the event whose finish()
\* is being run, target the monitor of the last send_message
CS ==
    [reply |-> reply, last_mon |-> last_mon, pending_cmd |-> pending_cmd,
     resend_event |-> resend_event, timer |-> timer, msgs |-> msgs,
     running |-> NULL, target |-> NULL]

\* MonMap::pick_mon(newmon): r is what rand() gives; without newmon the
\* monitor picked before is kept
PickMonAlwaysRandom(cur, newmon, r) == r

pick_mon(cur, newmon, r) == IF newmon \/ cur = NULL THEN r ELSE cur

\* SafeTimer::cancel_event
CancelNothing(tm, e) == tm

cancel_event(tm, e) == tm \ {e}

\* new C_Resend: an address not in use
NewEvent(s) ==
    CHOOSE e \in EventIds :
        /\ e \notin s.timer \cup {s.running}
        /\ \A x \in EventIds : x \notin s.timer \cup {s.running} => e <= x

\* send_command (333-345)
send_command(s, r) ==
    LET mon == pick_mon(s.last_mon, FALSE, r)
        ev  == NewEvent(s)
    IN  [s EXCEPT !.last_mon = mon,
                  !.msgs = {m \in @ : m.mon # mon}
                              \cup {[cmd |-> s.pending_cmd, mon |-> mon]},
                  !.target = mon,
                  !.resend_event = ev,
                  !.timer = @ \cup {ev}]

\* C_Resend::finish (326-332)
C_Resend_finish(s, r1, r2) ==
    LET s1 == [s EXCEPT !.last_mon = pick_mon(s.last_mon, TRUE, r1)] IN
    IF ~s1.reply THEN send_command(s1, r2) ELSE s1

SetCmd(s) ==
    /\ last_mon' = s.last_mon
    /\ resend_event' = s.resend_event
    /\ timer' = s.timer
    /\ msgs' = s.msgs

CmdFrame == <<treeVars, raceVars, i_nlink, d_used, n_calls, dirVars, thrVars>>

InitCmd ==
    /\ IdleState
    /\ call = NoCall

\* do_command (347-355), up to cond.Wait, which gives up the lock
DoCommand(r) ==
    LET s == send_command([CS EXCEPT !.pending_cmd = pending_cmd + 1,
                                    !.reply = FALSE], r) IN
    /\ pc = "idle"
    /\ pending_cmd < MaxCmds
    /\ pending_cmd' = pending_cmd + 1
    /\ reply' = FALSE
    /\ SetCmd(s)
    /\ pc' = "waiting"
    /\ last_ack' = <<>>
    /\ call' = [op |-> "do_command", cmd |-> pending_cmd + 1, target |-> s.target]
    /\ UNCHANGED <<reply_rc, acks, CmdFrame>>

\* do_command (356-366): woken with reply set, it returns reply_rc
Return ==
    /\ pc = "waiting"
    /\ reply
    /\ pc' = "idle"
    /\ call' = [op |-> "return", cmd |-> pending_cmd, ret |-> reply_rc,
                ack |-> last_ack, resend_event |-> resend_event, timer |-> timer]
    /\ UNCHANGED <<reply, reply_rc, resend_event, last_mon, pending_cmd, timer,
                   msgs, acks, last_ack, CmdFrame>>

\* the timer runs the scheduled event e: C_Resend::finish
TimerFire(e, r1, r2) ==
    LET s == C_Resend_finish([CS EXCEPT !.timer = timer \ {e}, !.running = e],
                             r1, r2) IN
    /\ e \in timer
    /\ SetCmd(s)
    /\ call' = [op |-> "resend", picked |-> pick_mon(last_mon, TRUE, r1),
                reply |-> reply, target |-> s.target]
    /\ UNCHANGED <<reply, reply_rc, pending_cmd, acks, pc, last_ack, CmdFrame>>

\* handle_ack (253-295), not in watch mode
HandleAck(a) ==
    /\ a \in acks
    /\ acks' = acks \ {a}
    /\ reply' = TRUE
    /\ reply_rc' = a.rc
    /\ IF resend_event # NULL
       THEN /\ timer' = cancel_event(timer, resend_event)
            /\ resend_event' = NULL
       ELSE UNCHANGED <<timer, resend_event>>
    /\ last_ack' = <<a>>
    /\ UNCHANGED <<last_mon, pending_cmd, msgs, pc, call, CmdFrame>>

\* the monitor a command message was sent to answers it
MonReply(m, rc) ==
    /\ m \in msgs
    /\ acks = {}
    /\ msgs' = msgs \ {m}
    /\ acks' = acks \cup {[cmd |-> m.cmd, rc |-> rc]}
    /\ UNCHANGED <<reply, reply_rc, resend_event, last_mon, pending_cmd, timer,
                   pc, last_ack, call, CmdFrame>>

\* the messenger drops a message (the policy for monitors is lossy, 568)
LoseMsg(m) ==
    /\ m \in msgs
    /\ msgs' = msgs \ {m}
    /\ UNCHANGED <<reply, reply_rc, resend_event, last_mon, pending_cmd, timer,
                   acks, pc, last_ack, call, CmdFrame>>

Fire == \E e \in EventIds, r1 \in Mons, r2 \in Mons : TimerFire(e, r1, r2)
Deliver == \E a \in [cmd : Cmds, rc : RCs] : HandleAck(a)

NextCmd ==
    \/ \E r \in Mons : DoCommand(r)
    \/ Return
    \/ Fire
    \/ Deliver
    \/ \E m \in [cmd : Cmds, mon : Mons], rc \in RCs : MonReply(m, rc)
    \/ \E m \in [cmd : Cmds, mon : Mons] : LoseMsg(m)

SpecCmd == InitCmd /\ [][NextCmd]_vars

\* the three threads of the client are scheduled: the caller of do_command,
\* the timer and the dispatcher; the network and the monitors promise nothing
SpecCmdFair ==
    SpecCmd /\ WF_vars(Return) /\ WF_vars(Fire) /\ WF_vars(Deliver)

\* do_command has returned, after an acknowledgement handled since its
\* send, with that acknowledgement's result code and no resend scheduled
ReturnedAck ==
    /\ call.op = "return"
    /\ call.ack # <<>>
    /\ call.ret = call.ack[1].rc
    /\ call.resend_event = NULL
    /\ call.timer = {}

\* C18: do_command returns only after handle_ack handled an acknowledgement
\* that came after the command was sent, with the result code of the
\* acknowledgement handled last and the resend event cancelled; and once an
\* acknowledgement is handled while the caller waits, the caller returns.
C18_ReturnsAfterAck ==
    /\ [](call.op = "return" => ReturnedAck)
    /\ \A c \in Cmds :
          (pc = "waiting" /\ pending_cmd = c /\ last_ack # <<>>)
              ~> (ReturnedAck /\ call.cmd = c)

\* do_command returned the result of an acknowledgement that came after a
\* resend
C18_Witness ==
    /\ call.op = "return"
    /\ call.ack # <<>>
    /\ call.ret = -1
    /\ call.ack[1].cmd = call.cmd
    /\ call.resend_event = NULL

\* C19: C_Resend::finish sends only when no reply is recorded, and to the
\* monitor pick_mon(true) has just picked; while a reply is recorded and
\* the caller has not taken it, no resend is scheduled.
C19_ResendToNewlyPicked ==
    /\ (call.op = "resend" /\ call.target # NULL) =>
          /\ ~call.reply
          /\ call.target = call.picked
    /\ (call.op = "resend" /\ call.reply) => call.target = NULL
    /\ (reply /\ pc = "waiting") => timer = {}

\* a command was resent to another monitor than the one before
C19_Witness ==
    /\ call.op = "resend"
    /\ call.target # NULL
    /\ \E m \in msgs : m.cmd = pending_cmd /\ m.mon # call.target

\* C20: a call of do_command that waits returns in the end, with a result
\* or with a timeout, whether or not a monitor answers.
C20_DoCommandReturns ==
    pc = "waiting" ~> pc = "idle"

\* C28: the acknowledgement whose result do_command returns answers the
\* command that call sent, never an earlier command.
C28_ReturnedAckAnswersOwnCommand ==
    (call.op = "return" /\ call.ack # <<>>) => call.ack[1].cmd = call.cmd

(***************************************************************************)
(* The operations: properties.                                             *)
(***************************************************************************)
MutatingOps == {"mknod", "symlink", "mkdir", "link", "unlink", "rename"}

\* the positions in the log of the last call of the events named ev
EvIdx(ev) == {i \in 1 .. Len(call.log) : call.log[i].ev = ev}

\* the last call dispatched a request
Dispatched == EvIdx("do_request") # {}

\* C4: in a mutating operation that dispatches its request, the content
\* lease of the parent directory (the source directory for a rename) is given
\* up before ceph_mdsc_do_request, and no lease is given up after it; when
\* the request cannot be created, no lease is given up and nothing is
\* dispatched.
C4_LeaseReleasedBeforeDispatch ==
    call.op \in MutatingOps =>
        /\ Dispatched =>
              /\ \E r \in EvIdx("lease_release") :
                    /\ call.log[r].ino = call.dir
                    /\ ICONTENT \in call.log[r].mask
                    /\ \A i \in EvIdx("do_request") : r < i
              /\ \A r \in EvIdx("lease_release"), i \in EvIdx("do_request") :
                    r < i
        /\ ~call.in.req_ok =>
              EvIdx("lease_release") = {} /\ EvIdx("do_request") = {}

\* a rename was dispatched after giving up two leases
C4_Witness ==
    /\ call.op = "rename"
    /\ Dispatched
    /\ Cardinality(EvIdx("lease_release")) = 2

\* C5: a mutating operation whose reply is a success with an empty trace
\* does not return success while the inode bound to its target dentry is
\* missing or is the one bound before the call.
C5_NoTraceSuccessRebindsTarget ==
    (/\ call.op \in MutatingOps
     /\ Dispatched
     /\ call.in.reply.err = OK
     /\ call.in.reply.numd = 0
     /\ call.ret = OK)
    => /\ d_inode[call.dentry] # call.pre_inode[call.dentry]
       /\ call.op \in {"mknod", "symlink", "mkdir", "link"} =>
             d_inode[call.dentry] # NULL

\* C14: a rename whose reply is a success with an empty trace looks the
\* destination up again: after the rename request, a lookup request for the
\* destination is created and dispatched before the rename returns.
C14_RenameNoTraceLooksUpAgain ==
    (/\ call.op = "rename"
     /\ Dispatched
     /\ call.in.reply.err = OK
     /\ call.in.reply.numd = 0
     /\ call.ret = OK)
    => \E i, j \in EvIdx("do_request") :
          /\ call.log[i].op = OP_RENAME
          /\ call.log[j].op = OP_LSTAT
          /\ i < j

\* C21: a rename between two directories that dispatches its request has
\* given up the content lease of the source directory and of the
\* destination directory before ceph_mdsc_do_request.
C21_RenameReleasesBothParents ==
    (/\ call.op = "rename"
     /\ Dispatched
     /\ call.pre_inode[call.pre_parent[call.dentry]] # call.dir)
    => \A p \in {call.dir, call.pre_inode[call.pre_parent[call.dentry]]} :
          \E r \in EvIdx("lease_release") :
             /\ call.log[r].ino = p
             /\ ICONTENT \in call.log[r].mask
             /\ \A i \in EvIdx("do_request") : r < i

\* C24: a mknod whose reply is a success with an empty trace looks the
\* target up again and returns success or -ESTALE; when it returns -ESTALE
\* the target dentry is unhashed; no step of it is applied to a NULL or
\* error-valued dentry.
C24_MknodNoTraceRelookupIsSafe ==
    (/\ call.op = "mknod"
     /\ Dispatched
     /\ call.in.reply.err = OK
     /\ call.in.reply.numd = 0)
    => /\ \E b \in EvIdx("build_path") :
             \E i \in EvIdx("do_request") : call.log[i].op = OP_MKNOD /\ i < b
       /\ call.ret \in {OK, ESTALE}
       /\ call.ret = ESTALE => ~d_hashed[call.dentry]
       /\ EvIdx("oops") = {}

\* C27: no operation reads r_reply_info of a request after its
\* ceph_mdsc_put_request: in the calls a handler makes, every read of the
\* reply comes before every release of a request.
C27_ReplyReadBeforePutRequest ==
    call.op \in MutatingOps \cup {"lookup", "lookup_ino"} =>
        \A r \in EvIdx("read_reply") : \A q \in EvIdx("put_request") : r < q

\* C6: when link, unlink, rename or mknod returns an error, the link counts
\* and the inodes bound to the dentries are those before the call, or those
\* confirmed by a trace.
C6_ErrorLeavesNoSpeculativeUpdate ==
    (/\ call.op \in {"link", "unlink", "rename", "mknod"}
     /\ call.ret \notin {OK, OOPS})
    => \/ i_nlink = call.pre_nlink /\ d_inode = call.pre_inode
       \/ i_nlink = call.cnlink /\ d_inode = call.cinode

\* C7: a lookup whose reply is -ENOENT with an empty trace returns no error;
\* a dentry without inode is hashed as it is and NULL is returned; a dentry
\* with an inode is unhashed, and the dentry returned is a new one without
\* inode, hashed, with the same parent and name.
C7_EnoentNoTraceBindsNegative ==
    (/\ call.op \in {"lookup", "lookup_ino"}
     /\ Dispatched
     /\ call.in.reply.err = ENOENT
     /\ call.in.reply.numd = 0)
    => /\ ~IS_ERR(call.ret)
       /\ IF call.pre_inode[call.dentry] = NULL
          THEN /\ call.ret = Ptr(NULL)
               /\ d_hashed[call.dentry]
               /\ d_inode[call.dentry] = NULL
          ELSE /\ ~d_hashed[call.dentry]
               /\ call.ret.d # NULL
               /\ call.ret.d # call.dentry
               /\ ~call.pre_used[call.ret.d]
               /\ d_used[call.ret.d]
               /\ d_inode[call.ret.d] = NULL
               /\ d_hashed[call.ret.d]
               /\ d_parent[call.ret.d] = call.pre_parent[call.dentry]
               /\ d_name[call.ret.d] = call.pre_name[call.dentry]

\* a dentry with an inode got -ENOENT and no trace, and was replaced
C7_Witness ==
    /\ call.op = "lookup"
    /\ Dispatched
    /\ call.in.reply.err = ENOENT
    /\ call.in.reply.numd = 0
    /\ call.pre_inode[call.dentry] # NULL
    /\ call.ret.d # NULL

\* the requests of the last call
Requests == {call.log[i] : i \in EvIdx("create_request")}

\* the operations a handler asks the MDS for
OpsOf(handler) ==
    CASE handler = "mknod" -> {OP_MKNOD, OP_LSTAT}
      [] handler = "symlink" -> {OP_SYMLINK}
      [] handler = "mkdir" -> {OP_MKDIR}
      [] handler = "link" -> {OP_LINK}
      [] handler = "unlink" -> {OP_UNLINK, OP_RMDIR}
      [] handler = "rename" -> {OP_RENAME}
      [] handler = "readdir" -> {OP_READDIR}
      [] OTHER -> {OP_LSTAT}

\* C8: every request is created with the policy of its operation:
\* USE_AUTH_MDS for the mutating operations and readdir, USE_ANY_MDS for a
\* lookup by path, USE_CAP_MDS for a lookup on the inode, which builds no
\* path.
C8_RequestsUseRequiredPolicy ==
    call.op # "none" =>
        /\ \A e \in Requests :
              /\ e.op \in OpsOf(call.op)
              /\ e.mode = IF e.op # OP_LSTAT THEN USE_AUTH_MDS
                          ELSE IF call.op = "lookup_ino" THEN USE_CAP_MDS
                          ELSE USE_ANY_MDS
        /\ Dispatched => Requests # {}
        /\ call.op = "lookup_ino" => EvIdx("build_path") = {}

\* a lookup on the inode was dispatched
C8_Witness ==
    /\ call.op = "lookup_ino"
    /\ Dispatched
    /\ call.in.reply.err = OK

(***************************************************************************)
(* Directory listing: properties.                                          *)
(***************************************************************************)
\* C9: every name served from a cached listing is served at a cursor of the
\* fragment the listing was fetched for.
C9_CachedListingServesItsFragment ==
    call.op = "readdir" =>
        \A i \in 1 .. Len(call.out) :
            call.out[i].src # <<>> =>
                call.out[i].src[1] = ceph_choose_frag(fpos_frag(call.out[i].pos))

\* the names of the fragments from the k-th on, in the order of the fragments
RECURSIVE NamesFrom(_)
NamesFrom(k) ==
    IF k >= 2 ^ dir_bits THEN <<>>
    ELSE Listing(frag_make(dir_bits, k * Stride(dir_bits))) \o NamesFrom(k + 1)

FullListing == <<".", "..">> \o NamesFrom(0)

\* the cursor after the last entry of the last fragment
EndPos ==
    LET f == frag_make(dir_bits, (2 ^ dir_bits - 1) * Stride(dir_bits)) IN
    make_fpos(f, dir_nr[f] + (IF dir_bits = 0 THEN 2 ELSE 0))

\* C10: a readdir from cursor 0 of a new session, whose consumer takes every
\* entry and whose fetches succeed, emits '.', '..' and then the names of
\* every fragment once, in the order of the fragments, fetching each
\* fragment once, and leaves the cursor after the last entry; a readdir from
\* that cursor emits nothing and leaves the cursor there.
C10_ReaddirEnumeratesAll ==
    /\ (/\ call.op = "readdir"
        /\ call.pre_f_pos = 0
        /\ call.pre_last = <<>>
        /\ ~call.refused
        /\ call.ret = OK)
       => /\ [i \in 1 .. Len(call.out) |-> call.out[i].name] = FullListing
          /\ Cardinality(EvIdx("do_request")) = 2 ^ dir_bits
          /\ f_pos = EndPos
    /\ (/\ call.op = "readdir"
        /\ call.pre_f_pos = EndPos
        /\ call.ret = OK)
       => /\ call.out = <<>>
          /\ f_pos = EndPos

\* a directory of several fragments was listed in one call
C10_Witness ==
    /\ call.op = "readdir"
    /\ call.pre_f_pos = 0
    /\ call.pre_last = <<>>
    /\ ~call.refused
    /\ call.ret = OK
    /\ dir_bits > 0
    /\ Len(call.out) = CapAll

\* the cursors the entries of the fragments from the k-th on are emitted
\* with (lines 165, 174 and 191), in the order of the fragments
RECURSIVE CursorsFrom(_)
CursorsFrom(k) ==
    IF k >= 2 ^ dir_bits THEN <<>>
    ELSE LET f == frag_make(dir_bits, k * Stride(dir_bits)) IN
         [i \in 1 .. dir_nr[f] |->
             make_fpos(f, i - 1 + (IF frag_is_leftmost(f) THEN 2 ELSE 0))]
         \o CursorsFrom(k + 1)

\* the cursors of the entries of FullListing
FullCursors == <<make_fpos(0, 0), make_fpos(0, 1)>> \o CursorsFrom(0)

\* the entries of FullListing from the one emitted with cursor c on
ListingFromCursor(c) ==
    LET k == CHOOSE i \in 1 .. Len(FullCursors) : FullCursors[i] = c IN
    SubSeq(FullListing, k, Len(FullListing))

\* C11: the directory does not change; after a seek to the cursor c an
\* entry of the enumeration was emitted with, a readdir whose consumer
\* takes every entry and whose fetches succeed emits the entries of the
\* enumeration from that entry on, whatever was read before the seek.
C11_SeekToEmittedCursorResumes ==
    (/\ call.op = "readdir"
     /\ call.sought
     /\ \E i \in 1 .. Len(FullCursors) : FullCursors[i] = call.pre_f_pos
     /\ ~call.refused
     /\ call.ret = OK)
    => [i \in 1 .. Len(call.out) |-> call.out[i].name]
          = ListingFromCursor(call.pre_f_pos)

\* C26: the directory does not change and the session is only read, from
\* cursor 0 on, by readdir calls whose fetches succeed.  A call whose
\* consumer refuses an entry returns 0, and whatever entries the consumers
\* refuse, the names emitted by the calls so far are the first names of the
\* enumeration, each once and in order (none skipped, none repeated); a call
\* in which nothing is refused has emitted the enumeration to its end.
C26_RefusalsNeitherSkipNorRepeat ==
    (call.op = "readdir" /\ call.seq # <<>>) =>
        /\ Len(call.seq[1]) <= Len(FullListing)
        /\ call.seq[1] = SubSeq(FullListing, 1, Len(call.seq[1]))
        /\ ~call.refused => call.seq[1] = FullListing

\* C23: the session holds at most one cached listing.  A readdir changes
\* it only by a successful fetch, which installs the listing of one
\* fragment and releases the one it replaces; a fetch that fails, or whose
\* request cannot be created, returns with the cache and the cursor it was
\* entered with.  A seek clears the cache exactly when it lands on position
\* 0, also when the cursor was there already; a rejected seek leaves cache
\* and cursor alone.
C23_CacheChangesOnlyByFetchOrSeekZero ==
    /\ Len(last_readdir) <= 1
    /\ call.op = "readdir" =>
          /\ call.nfetch = 0 => last_readdir = call.pre_last
          /\ call.nfetch > 0 =>
                /\ Len(last_readdir) = 1
                /\ last_readdir[1].dname = Listing(last_readdir[1].frag)
          /\ Cardinality(EvIdx("put_request"))
                = (IF call.pre_last # <<>> \/ call.nfetch = 0
                   THEN call.nfetch ELSE call.nfetch - 1)
                  + (IF call.ret # OK
                        /\ call.log[Len(call.log)].ev = "put_request"
                     THEN 1 ELSE 0)
          /\ call.ret # OK =>
                /\ call.fail_pre # <<>>
                /\ f_pos = call.fail_pre[1].f_pos
                /\ last_readdir = call.fail_pre[1].last
                /\ (call.nfetch = 0 /\ call.out = <<>>
                      /\ fpos_frag(f_pos) = fpos_frag(call.pre_f_pos))
                     => f_pos = call.pre_f_pos
    /\ call.op = "llseek" =>
          /\ ~call.valid =>
                f_pos = call.pre_f_pos /\ last_readdir = call.pre_last
          /\ (call.valid /\ f_pos = 0) =>
                /\ last_readdir = <<>>
                /\ (call.pre_last # <<>>) <=> (EvIdx("put_request") # {})
          /\ (call.valid /\ f_pos # 0) =>
                last_readdir = call.pre_last /\ call.log = <<>>

\* C23 witness: a fetch replaced the cached listing and a later fetch of the
\* same call failed
C23_Witness ==
    /\ call.op = "readdir"
    /\ call.ret # OK
    /\ call.nfetch = 1
    /\ last_readdir # call.pre_last

\* C12: '.' and '..' are emitted only in a leftmost fragment, with the
\* cursors (0, 0) and (0, 1); every other entry emitted at offset o of a
\* fragment is the name of index o - 2 of the cached listing in a leftmost
\* fragment and of index o elsewhere, and that index is within the listing.
C12_OffsetMapsToListingIndex ==
    call.op = "readdir" =>
        \A i \in 1 .. Len(call.out) :
            LET e == call.out[i]
                o == fpos_off(e.pos)
                k == IF frag_is_leftmost(e.frag) THEN o - 2 ELSE o
            IN  IF e.src = <<>>
                THEN /\ frag_is_leftmost(e.frag)
                     /\ \/ e.name = "." /\ e.pos = make_fpos(0, 0)
                        \/ e.name = ".." /\ e.pos = make_fpos(0, 1)
                ELSE /\ e.pos = make_fpos(e.frag, o)
                     /\ k >= 0
                     /\ k < dir_nr[e.src[1]]
                     /\ e.name = Listing(e.src[1])[k + 1]

\* one call emitted '.', '..', a name of the leftmost fragment and a name of
\* another fragment
C12_Witness ==
    /\ call.op = "readdir"
    /\ \E i, j, k \in 1 .. Len(call.out) :
          /\ call.out[i].src = <<>>
          /\ call.out[j].src # <<>> /\ frag_is_leftmost(call.out[j].frag)
          /\ call.out[k].src # <<>> /\ ~frag_is_leftmost(call.out[k].frag)

====
